---------------------------- MODULE Spec2Model ----------------------------
(***************************************************************************)
(* DailyFluent, static/js/dictation.js: the dictation grading engine       *)
(* (normalizeWord, levenshtein, wordMatchType, lcsAlign) and the           *)
(* DictationMode session that uses it, AudioSeeker, which plays one        *)
(* segment of the shared audio element for a mode, the replay timer of     *)
(* DictationMode, the continuous playback of TranscriptMode, the page's    *)
(* segment loading and its debounced progress reports; and                 *)
(* static/js/badge_popup.js (BadgeManager) and                             *)
(* static/js/flashcard-core.js (FlashcardApp).                             *)
(*                                                                         *)
(* A JavaScript string is a sequence of one-character strings; a word      *)
(* array is a sequence of such sequences.  null is the empty option <<>>   *)
(* and a present word w is the one-element option <<w>>.                   *)
(***************************************************************************)
EXTENDS Integers, Sequences, FiniteSets, TLC

VARIABLES
    \* levenshtein(a, b) applied to two strings
    levA, levB, levResult,
    \* wordMatchType(userWord, correctWord) applied to two raw words
    matchUser, matchCorrect, matchResult,
    \* lcsAlign(userWords, correctWords) applied to two word arrays
    \* alignMt, alignDp are its tables mt and dp, alignI, alignJ the backtrack
    \* loop's i and j, alignment its result
    userWords, correctWords, alignMt, alignDp, alignI, alignJ, alignment, alignPc,
    \* DictationMode: the segments' correct_text, the session fields, and the
    \* page elements its handlers read and write
    segments, currentIndex, isChecked, correctCount, attempts,
    inputValue, inputDisabled, btnCheckHidden, btnNextHidden,
    btnRevealPresent, btnRevealHidden, feedbackHidden, feedbackContent,
    playButton, summaryShown, finalScore, progressArg, playRequest,
    \* history: the handler called last and whether it threw, the number of
    \* segments rendered, and correctCount when the current one was rendered
    lastCall, threw, visited, countAtRender,
    \* the audio element: paused, currentTime, whether checkAudioReady holds,
    \* and whether a 'seeked' event is due
    audioPaused, audioTime, audioReady, seekedDue,
    \* AudioSeeker: one record per seekAndPlay call, in the order of the calls,
    \* holding its arguments, its live listeners, timers and promises, and
    \* how often its callbacks ran
    requests,
    \* history: the step taken last, and whether stop() was called since the
    \* last seekAndPlay
    seekEvent, stopped,
    \* page load: the segments of the page's JSON, the segments handed to
    \* DictationApp, how far the load got, and the times last handed to
    \* seekAndPlay
    rawSegments, loadedSegments, bootPc, handed,
    \* progress reports: whether the page has a progress sink, the index and
    \* the number of segments DictationMode renders, the pending timers of
    \* onProgress, the requests sent and those awaiting a response
    progEnabled, progIndex, progTotal, progTimers, progSent, progInFlight,
    \* history: the milliseconds since the last segment render, the renders
    \* of the current burst, the requests sent since it began, the step
    \* taken last
    sinceRender, burst, burstSent, progEvent,
    \* BadgeManager: queue, isShowing, the badge in the overlay (0 when the
    \* overlay is hidden) and the pending timers of hide(), each with the
    \* badge that was in the overlay when close was clicked
    badgeQueue, isShowing, overlayBadge, hideTimers,
    \* history: the number of badges enqueued (badges are numbered in the
    \* order of their enqueueing), the badges put in the overlay in order,
    \* and the step taken last
    enqueuedCount, displayLog, badgeEvent,
    \* FlashcardApp: queue, current (0 for null), completed, locked, whether
    \* the back of the card is hidden, whether the 'complete' state is
    \* shown, the card of the grade request in flight (0 for none), the
    \* pending nextCard timers and the cards of the pending requeue timers
    fcQueue, fcCurrent, completed, locked, backHidden, emptyShown,
    gradeInFlight, nextCardTimers, requeueTimers,
    \* history: the grade requests sent and the increments of completed
    \* since the current card was displayed, the grade requests sent in all,
    \* the cards requeued and not displayed since, and the step taken last
    gradesSent, completedThis, gradesTotal, awaited, fcEvent,
    \* the modes that use AudioSeeker: for each request the mode that made
    \* it and the index of its segment
    owners,
    \* DictationMode: the autoReplay setting, currentIndex, and the pending
    \* replay timers, each with the index of the segment whose end set it
    \* (history), and the segment of the timer that ran last (history)
    autoReplay, playIndex, replayTimers, firedFor,
    \* TranscriptMode: whether it is the mode in use, continuousPlaying,
    \* isPlaying, the pending timers of nextSegmentTimeout with the index
    \* each will play, whether the timer set last is still pending, the
    \* 'pause' and 'play' events of the audio not yet dispatched, and the
    \* onPlay and handleEnd calls so far (history)
    transActive, continuousPlaying, transIsPlaying, gapTimers, handlePending,
    mediaEvents, transLog

levVars   == <<levA, levB, levResult>>
matchVars == <<matchUser, matchCorrect, matchResult>>
alignVars == <<userWords, correctWords, alignMt, alignDp, alignI, alignJ,
               alignment, alignPc>>
pureVars  == <<levVars, matchVars, alignVars>>
domVars   == <<inputValue, inputDisabled, btnCheckHidden, btnNextHidden,
               btnRevealHidden, feedbackHidden, feedbackContent, playButton,
               summaryShown, finalScore>>
modeVars  == <<currentIndex, isChecked, correctCount, attempts>>
sessVars  == <<segments, btnRevealPresent, modeVars, domVars, progressArg,
               playRequest, lastCall, threw, visited, countAtRender>>
seekVars  == <<audioPaused, audioTime, audioReady, seekedDue, requests,
               seekEvent, stopped>>
bootVars  == <<rawSegments, loadedSegments, bootPc, handed>>
progVars  == <<progEnabled, progIndex, progTotal, progTimers, progSent,
               progInFlight, sinceRender, burst, burstSent, progEvent>>
badgeVars == <<badgeQueue, isShowing, overlayBadge, hideTimers, enqueuedCount,
               displayLog, badgeEvent>>
flashVars == <<fcQueue, fcCurrent, completed, locked, backHidden, emptyShown,
               gradeInFlight, nextCardTimers, requeueTimers, gradesSent,
               completedThis, gradesTotal, awaited, fcEvent>>
dictPlayVars == <<autoReplay, playIndex, replayTimers, firedFor>>
transVars == <<transActive, continuousPlaying, transIsPlaying, gapTimers,
               handlePending, mediaEvents, transLog>>
playVars  == <<owners, dictPlayVars, transVars>>
pageVars  == <<bootVars, progVars, badgeVars, flashVars, playVars>>
vars      == <<pureVars, sessVars, seekVars, pageVars>>
besideBoot == <<pureVars, sessVars, seekVars, progVars, badgeVars, flashVars,
                playVars>>
besideProg == <<pureVars, sessVars, seekVars, bootVars, badgeVars, flashVars,
                playVars>>
besideBadge == <<pureVars, sessVars, seekVars, bootVars, progVars, flashVars,
                playVars>>
besidePlay == <<pureVars, sessVars, bootVars, progVars, badgeVars, flashVars>>
besideFlash == <<pureVars, sessVars, seekVars, bootVars, progVars, badgeVars,
                playVars>>

---------------------------------------------------------------------------
(* Bounds of the model *)

MaxLevLen   == 3    \* longest string handed to levenshtein on its own
MaxWordLen  == 6    \* longest all-letter word handed to wordMatchType
MaxDecorLen == 2    \* longest word mixing case, punctuation and blanks
MaxWords    == 3    \* longest word array handed to lcsAlign
MaxSegments == 2    \* longest segment list of a session
MaxChecks   == 4    \* failed checks followed on one segment
MaxOverrun  == 1    \* nextSegment calls followed after the summary is shown
MaxRequests == 2    \* seekAndPlay calls followed on one audio element
MaxTime     == 3    \* last position of the audio followed, in seconds
MaxRawSegments == 2 \* longest segment list in the page's JSON
MaxBadges   == 4    \* badges enqueued on one page
MaxHideTimers == 3  \* hide() timers pending at once
MaxCards    == 2    \* cards in the initial queue of FlashcardApp
MaxGrades   == 3    \* grade requests followed on one page

MAX_ATTEMPTS == 3

---------------------------------------------------------------------------
(* Characters *)

Letters    == {"a", "b"}
PunctChars == {".", ",", "?", "!", ";", ":", "'", "\"", "(", ")", "[", "]",
               "{", "}", "-"}
SpaceChars == {" ", "\t"}
DecorChars == {"a", "b", "A", ".", " "}

toLowerCase(c) ==
    IF c = "A" THEN "a" ELSE IF c = "B" THEN "b" ELSE c

\* all sequences over S of length 0..n
RECURSIVE StringsUpTo(_, _)
StringsUpTo(S, n) ==
    IF n = 0 THEN {<<>>}
    ELSE LET shorter == StringsUpTo(S, n - 1)
         IN  shorter \cup {Append(s, c) : s \in shorter, c \in S}

Min2(x, y) == IF x <= y THEN x ELSE y

\* mutant of Max2: Math.min where Math.max is meant
Max2AsMin(x, y) == IF x <= y THEN x ELSE y

Max2(x, y) == IF x >= y THEN x ELSE y

\* mutant of Min3: the substitution term dp[i-1][j-1] is left out
Min3NoSubstitution(x, y, z) == Min2(y, z)

Min3(x, y, z) == Min2(x, Min2(y, z))

---------------------------------------------------------------------------
(* String utilities of dictation.js *)

lowerAll(s) == [k \in 1..Len(s) |-> toLowerCase(s[k])]

stripPunct(s) == SelectSeq(s, LAMBDA c : c \notin PunctChars)

RECURSIVE trimLeft(_)
trimLeft(s) ==
    IF s # <<>> /\ Head(s) \in SpaceChars THEN trimLeft(Tail(s)) ELSE s

RECURSIVE trimRight(_)
trimRight(s) ==
    IF s # <<>> /\ s[Len(s)] \in SpaceChars
    THEN trimRight(SubSeq(s, 1, Len(s) - 1))
    ELSE s

trim(s) == trimRight(trimLeft(s))

\* replace(/\s+/g, ' '): every maximal run of blanks becomes one space
RECURSIVE collapseSpaces(_, _)
collapseSpaces(s, inRun) ==
    IF s = <<>> THEN <<>>
    ELSE IF Head(s) \in SpaceChars
         THEN IF inRun THEN collapseSpaces(Tail(s), TRUE)
              ELSE <<" ">> \o collapseSpaces(Tail(s), TRUE)
         ELSE <<Head(s)>> \o collapseSpaces(Tail(s), FALSE)

\* split(/\s+/).filter(w => w): the maximal runs of non-blank characters
RECURSIVE splitWords(_, _)
splitWords(s, cur) ==
    IF s = <<>> THEN (IF cur = <<>> THEN <<>> ELSE <<cur>>)
    ELSE IF Head(s) \in SpaceChars
         THEN (IF cur = <<>> THEN <<>> ELSE <<cur>>) \o splitWords(Tail(s), <<>>)
         ELSE splitWords(Tail(s), Append(cur, Head(s)))

normalizeWord(w) == trim(stripPunct(lowerAll(w)))

normalizeForCompare(s) == trim(collapseSpaces(stripPunct(lowerAll(s)), FALSE))

---------------------------------------------------------------------------
(* levenshtein: the dp table is filled row by row, a row being the         *)
(* sequence dp[i][0..n] stored at positions 1..n+1.                        *)

RECURSIVE levCells(_, _, _, _, _, _)
levCells(a, b, i, prev, j, row) ==
    IF j > Len(b) THEN row
    ELSE LET cell == IF a[i] = b[j]
                     THEN prev[j]
                     ELSE 1 + Min3(prev[j], prev[j + 1], row[j])
         IN  levCells(a, b, i, prev, j + 1, Append(row, cell))

RECURSIVE levRows(_, _, _, _)
levRows(a, b, i, prev) ==
    IF i > Len(a) THEN prev[Len(b) + 1]
    ELSE levRows(a, b, i + 1, levCells(a, b, i, prev, 1, <<i>>))

levenshtein(a, b) ==
    IF Len(a) = 0 THEN Len(b)
    ELSE IF Len(b) = 0 THEN Len(a)
    ELSE levRows(a, b, 1, [j \in 1..(Len(b) + 1) |-> j - 1])

---------------------------------------------------------------------------
(* wordMatchType *)

\* mutant of matchThreshold: three-letter words get the tolerance of
\* four-letter ones
matchThresholdFromThree(c) ==
    IF Len(c) <= 2 THEN 0 ELSE IF Len(c) <= 5 THEN 1 ELSE 2

matchThreshold(c) == IF Len(c) <= 3 THEN 0 ELSE IF Len(c) <= 5 THEN 1 ELSE 2

wordMatchType(userWord, correctWord) ==
    LET u == normalizeWord(userWord)
        c == normalizeWord(correctWord)
    IN  IF u = <<>> \/ c = <<>> THEN "wrong"
        ELSE IF u = c THEN "exact"
        ELSE IF matchThreshold(c) = 0 THEN "wrong"
        ELSE IF levenshtein(u, c) <= matchThreshold(c) THEN "near"
        ELSE "wrong"

---------------------------------------------------------------------------
(* lcsAlign *)

Null    == <<>>
Some(w) == <<w>>

\* mt[i][j] for 1-based i, j is the source's mt[i-1][j-1]
matchTable(U, C) ==
    [i \in 1..Len(U) |-> [j \in 1..Len(C) |-> wordMatchType(U[i], C[j])]]

\* one row dp[i][0..n] from the row above it
RECURSIVE lcsCells(_, _, _, _, _, _)
lcsCells(mt, n, i, prev, j, row) ==
    IF j > n THEN row
    ELSE LET cell == IF mt[i][j] # "wrong"
                     THEN prev[j] + 1
                     ELSE Max2(prev[j + 1], row[j])
         IN  lcsCells(mt, n, i, prev, j + 1, Append(row, cell))

\* the rows dp[0..m], row i stored at position i+1
RECURSIVE lcsRows(_, _, _, _, _)
lcsRows(mt, m, n, i, rows) ==
    IF i > m THEN rows
    ELSE lcsRows(mt, m, n, i + 1,
                 Append(rows, lcsCells(mt, n, i, rows[i], 1, <<0>>)))

lcsTable(mt, m, n) == lcsRows(mt, m, n, 1, << [j \in 1..(n + 1) |-> 0] >>)

\* mutant of backtrackStep: items are pushed at the end of the result
\* instead of unshifted at its front
backtrackStepPush(U, C, mt, dp, i, j, result) ==
    IF i > 0 /\ j > 0 /\ mt[i][j] # "wrong"
       /\ dp[i + 1][j + 1] = dp[i][j] + 1
    THEN [i |-> i - 1, j |-> j - 1,
          result |-> Append(result, [type |-> mt[i][j], userWord |-> Some(U[i]),
                                     correctWord |-> Some(C[j])])]
    ELSE IF j > 0 /\ (i = 0 \/ dp[i + 1][j] >= dp[i][j + 1])
         THEN [i |-> i, j |-> j - 1,
               result |-> Append(result, [type |-> "missing", userWord |-> Null,
                                          correctWord |-> Some(C[j])])]
         ELSE [i |-> i - 1, j |-> j,
               result |-> Append(result, [type |-> "extra", userWord |-> Some(U[i]),
                                          correctWord |-> Null])]

\* mutant of backtrackStep: the diagonal move does not ask whether the
\* two words match
backtrackStepAnyDiagonal(U, C, mt, dp, i, j, result) ==
    IF i > 0 /\ j > 0 /\ dp[i + 1][j + 1] = dp[i][j] + 1
    THEN [i |-> i - 1, j |-> j - 1,
          result |-> <<[type |-> mt[i][j], userWord |-> Some(U[i]),
                        correctWord |-> Some(C[j])]>> \o result]
    ELSE IF j > 0 /\ (i = 0 \/ dp[i + 1][j] >= dp[i][j + 1])
         THEN [i |-> i, j |-> j - 1,
               result |-> <<[type |-> "missing", userWord |-> Null,
                             correctWord |-> Some(C[j])]>> \o result]
         ELSE [i |-> i - 1, j |-> j,
               result |-> <<[type |-> "extra", userWord |-> Some(U[i]),
                             correctWord |-> Null]>> \o result]

\* mutant of backtrackStep: on a tie of dp[i][j-1] and dp[i-1][j] the user
\* word is consumed as extra
backtrackStepExtraOnTies(U, C, mt, dp, i, j, result) ==
    IF i > 0 /\ j > 0 /\ mt[i][j] # "wrong"
       /\ dp[i + 1][j + 1] = dp[i][j] + 1
    THEN [i |-> i - 1, j |-> j - 1,
          result |-> <<[type |-> mt[i][j], userWord |-> Some(U[i]),
                        correctWord |-> Some(C[j])]>> \o result]
    ELSE IF j > 0 /\ (i = 0 \/ dp[i + 1][j] > dp[i][j + 1])
         THEN [i |-> i, j |-> j - 1,
               result |-> <<[type |-> "missing", userWord |-> Null,
                             correctWord |-> Some(C[j])]>> \o result]
         ELSE [i |-> i - 1, j |-> j,
               result |-> <<[type |-> "extra", userWord |-> Some(U[i]),
                             correctWord |-> Null]>> \o result]

\* mutant of backtrackStep: off a match the table is not consulted, a user
\* word is consumed as extra as long as one is left
backtrackStepIgnoringTable(U, C, mt, dp, i, j, result) ==
    IF i > 0 /\ j > 0 /\ mt[i][j] # "wrong"
       /\ dp[i + 1][j + 1] = dp[i][j] + 1
    THEN [i |-> i - 1, j |-> j - 1,
          result |-> <<[type |-> mt[i][j], userWord |-> Some(U[i]),
                        correctWord |-> Some(C[j])]>> \o result]
    ELSE IF j > 0 /\ i = 0
         THEN [i |-> i, j |-> j - 1,
               result |-> <<[type |-> "missing", userWord |-> Null,
                             correctWord |-> Some(C[j])]>> \o result]
         ELSE [i |-> i - 1, j |-> j,
               result |-> <<[type |-> "extra", userWord |-> Some(U[i]),
                             correctWord |-> Null]>> \o result]

\* one iteration of the backtrack loop: the loop's i, j and result after it
backtrackStep(U, C, mt, dp, i, j, result) ==
    IF i > 0 /\ j > 0 /\ mt[i][j] # "wrong"
       /\ dp[i + 1][j + 1] = dp[i][j] + 1
    THEN [i |-> i - 1, j |-> j - 1,
          result |-> <<[type |-> mt[i][j], userWord |-> Some(U[i]),
                        correctWord |-> Some(C[j])]>> \o result]
    ELSE IF j > 0 /\ (i = 0 \/ dp[i + 1][j] >= dp[i][j + 1])
         THEN [i |-> i, j |-> j - 1,
               result |-> <<[type |-> "missing", userWord |-> Null,
                             correctWord |-> Some(C[j])]>> \o result]
         ELSE [i |-> i - 1, j |-> j,
               result |-> <<[type |-> "extra", userWord |-> Some(U[i]),
                             correctWord |-> Null]>> \o result]

\* while (i > 0 || j > 0) { ... }
RECURSIVE backtrack(_, _, _, _, _, _, _)
backtrack(U, C, mt, dp, i, j, result) ==
    IF ~(i > 0 \/ j > 0) THEN result
    ELSE LET after == backtrackStep(U, C, mt, dp, i, j, result)
         IN  backtrack(U, C, mt, dp, after.i, after.j, after.result)

lcsAlign(U, C) ==
    LET m  == Len(U)
        n  == Len(C)
        mt == matchTable(U, C)
        dp == lcsTable(mt, m, n)
    IN  backtrack(U, C, mt, dp, m, n, <<>>)

countType(al, t) == Len(SelectSeq(al, LAMBDA it : it.type = t))

---------------------------------------------------------------------------
(* Inputs of the pure functions *)

LevStrings == StringsUpTo(Letters, MaxLevLen)

RawWords == StringsUpTo(Letters, MaxWordLen) \cup StringsUpTo(DecorChars, MaxDecorLen)

\* a vocabulary in which matching is fuzzy and not transitive: abab is
\* near abaa and abaa is near aaaa, but abab and aaaa do not match
Vocabulary ==
    { <<"a","b","a","b">>, <<"a","b","a","a">>, <<"a","a","a","a">> }

WordArrays == StringsUpTo(Vocabulary, MaxWords)

---------------------------------------------------------------------------
(* Specification of levenshtein on its own *)

LevIdle   == levA = <<>> /\ levB = <<>> /\ levResult = -1
MatchIdle == matchUser = <<>> /\ matchCorrect = <<>> /\ matchResult = "none"
AlignIdle == userWords = <<>> /\ correctWords = <<>> /\ alignMt = <<>>
             /\ alignDp = <<>> /\ alignI = 0 /\ alignJ = 0
             /\ alignment = <<>> /\ alignPc = "idle"

SeekIdle ==
    /\ audioPaused = TRUE /\ audioTime = 0 /\ audioReady = FALSE
    /\ seekedDue = FALSE /\ requests = <<>>
    /\ seekEvent = <<"idle", 0>> /\ stopped = FALSE

BootIdle ==
    /\ rawSegments = <<>> /\ loadedSegments = <<>> /\ bootPc = "idle"
    /\ handed = <<>>

ProgIdle ==
    /\ progEnabled = FALSE /\ progIndex = 0 /\ progTotal = 0
    /\ progTimers = <<>> /\ progSent = <<>> /\ progInFlight = 0
    /\ sinceRender = 0 /\ burst = <<>> /\ burstSent = 0 /\ progEvent = "idle"

BadgeIdle ==
    /\ badgeQueue = <<>> /\ isShowing = FALSE /\ overlayBadge = 0
    /\ hideTimers = <<>> /\ enqueuedCount = 0 /\ displayLog = <<>>
    /\ badgeEvent = "idle"

FlashIdle ==
    /\ fcQueue = <<>> /\ fcCurrent = 0 /\ completed = 0 /\ locked = FALSE
    /\ backHidden = TRUE /\ emptyShown = FALSE /\ gradeInFlight = 0
    /\ nextCardTimers = 0 /\ requeueTimers = <<>>
    /\ gradesSent = 0 /\ completedThis = 0 /\ gradesTotal = 0
    /\ awaited = {} /\ fcEvent = "idle"

PlayIdle ==
    /\ owners = <<>>
    /\ autoReplay = FALSE /\ playIndex = 0 /\ replayTimers = <<>> /\ firedFor = -1
    /\ transActive = FALSE /\ continuousPlaying = FALSE /\ transIsPlaying = FALSE
    /\ gapTimers = <<>> /\ handlePending = FALSE /\ mediaEvents = <<>>
    /\ transLog = <<>>

PageIdle == BootIdle /\ ProgIdle /\ BadgeIdle /\ FlashIdle /\ PlayIdle

SessIdle ==
    /\ segments = <<>> /\ btnRevealPresent = FALSE
    /\ currentIndex = 0 /\ isChecked = FALSE /\ correctCount = 0 /\ attempts = 0
    /\ inputValue = <<>> /\ inputDisabled = FALSE
    /\ btnCheckHidden = FALSE /\ btnNextHidden = TRUE /\ btnRevealHidden = TRUE
    /\ feedbackHidden = TRUE /\ feedbackContent = "" /\ playButton = "play"
    /\ summaryShown = FALSE /\ finalScore = -1
    /\ progressArg = -1 /\ playRequest = -1
    /\ lastCall = "idle" /\ threw = FALSE /\ visited = 0 /\ countAtRender = 0

InitLev ==
    /\ levA \in LevStrings
    /\ levB \in LevStrings
    /\ levResult = -1
    /\ MatchIdle
    /\ AlignIdle
    /\ SessIdle
    /\ SeekIdle
    /\ PageIdle

CallLevenshtein ==
    /\ levResult = -1
    /\ levResult' = levenshtein(levA, levB)
    /\ UNCHANGED <<levA, levB, matchVars, alignVars, sessVars,
                   seekVars, pageVars>>

NextLev == CallLevenshtein

SpecLev == InitLev /\ [][NextLev]_vars

---------------------------------------------------------------------------
(* Specification of wordMatchType on its own *)

InitMatch ==
    /\ matchUser \in RawWords
    /\ matchCorrect \in RawWords
    /\ matchResult = "none"
    /\ LevIdle
    /\ AlignIdle
    /\ SessIdle
    /\ SeekIdle
    /\ PageIdle

CallWordMatchType ==
    /\ matchResult = "none"
    /\ matchResult' = wordMatchType(matchUser, matchCorrect)
    /\ UNCHANGED <<matchUser, matchCorrect, levVars, alignVars, sessVars,
                   seekVars, pageVars>>

NextMatch == CallWordMatchType

SpecMatch == InitMatch /\ [][NextMatch]_vars

---------------------------------------------------------------------------
(* Specification of lcsAlign on its own: the call fills the tables and    *)
(* then runs the backtrack loop one iteration at a time.                   *)

alignDone == alignPc = "done"

InitAlign ==
    /\ userWords \in WordArrays
    /\ correctWords \in WordArrays
    /\ alignMt = <<>> /\ alignDp = <<>>
    /\ alignI = 0 /\ alignJ = 0
    /\ alignment = <<>>
    /\ alignPc = "call"
    /\ LevIdle
    /\ MatchIdle
    /\ SessIdle
    /\ SeekIdle
    /\ PageIdle

\* lines 75-100: mt and dp are filled, i = m, j = n, result = []
LcsAlignFillTables ==
    /\ alignPc = "call"
    /\ alignMt' = matchTable(userWords, correctWords)
    /\ alignDp' = lcsTable(alignMt', Len(userWords), Len(correctWords))
    /\ alignI' = Len(userWords)
    /\ alignJ' = Len(correctWords)
    /\ alignment' = <<>>
    /\ alignPc' = "backtrack"
    /\ UNCHANGED <<userWords, correctWords, levVars, matchVars, sessVars,
                   seekVars, pageVars>>

\* lines 101-112: one iteration of the while loop
LcsAlignBacktrackStep ==
    /\ alignPc = "backtrack"
    /\ alignI > 0 \/ alignJ > 0
    /\ LET after == backtrackStep(userWords, correctWords, alignMt, alignDp,
                                  alignI, alignJ, alignment)
       IN  /\ alignI' = after.i
           /\ alignJ' = after.j
           /\ alignment' = after.result
    /\ UNCHANGED <<userWords, correctWords, alignMt, alignDp, alignPc,
                   levVars, matchVars, sessVars, seekVars, pageVars>>

\* line 113: return result
LcsAlignReturn ==
    /\ alignPc = "backtrack"
    /\ ~(alignI > 0 \/ alignJ > 0)
    /\ alignPc' = "done"
    /\ UNCHANGED <<userWords, correctWords, alignMt, alignDp, alignI, alignJ,
                   alignment, levVars, matchVars, sessVars, seekVars, pageVars>>

NextAlign == LcsAlignFillTables \/ LcsAlignBacktrackStep \/ LcsAlignReturn

SpecAlign == InitAlign /\ [][NextAlign]_vars

---------------------------------------------------------------------------
(* DictationMode: texts *)

wAb   == <<"a", "b">>
wAbab == <<"a", "b", "a", "b">>
wAbaa == <<"a", "b", "a", "a">>
wBbbb == <<"b", "b", "b", "b">>

RECURSIVE joinWords(_, _)
joinWords(ws, sep) ==
    IF ws = <<>> THEN <<>>
    ELSE IF Len(ws) = 1 THEN ws[1]
    ELSE ws[1] \o sep \o joinWords(Tail(ws), sep)

\* correct_text of a segment: "ab abab" or "Abab."
RefTexts ==
    { joinWords(<<wAb, wAbab>>, <<" ">>),
      <<"A", "b", "a", "b", ".">> }

\* what the learner may type
AnswerTexts ==
    { <<>>,                                                \* nothing
      <<" ", "\t">>,                                       \* blanks only
      joinWords(<<wAb, wAbab>>, <<" ">>),                  \* "ab abab"
      <<" ">> \o joinWords(<<<<"A", "b", ".">>, wAbab>>, <<" ", "\t">>)
          \o <<" ">>,                                      \* " Ab. \tabab "
      joinWords(<<wAb, wAbaa>>, <<" ">>),                  \* "ab abaa"
      wAbab,                                               \* "abab"
      wAbaa,                                               \* "abaa"
      joinWords(<<wAb, wBbbb>>, <<" ">>),                  \* "ab bbbb"
      joinWords(<<<<".">>, wAb, wAbab>>, <<" ">>),         \* ". ab abab"
      <<"a", "b", "-", "a", "b">> }                        \* "ab-ab"

SegmentLists ==
    UNION {[1..n -> RefTexts] : n \in 1..MaxSegments}

---------------------------------------------------------------------------
(* DictationMode: the grading decision of checkAnswer *)

\* text.trim().split(/\s+/).filter(w => w)
wordsOf(text) == splitWords(trim(text), <<>>)

isExactCorrect(userText, correctText) ==
    normalizeForCompare(userText) = normalizeForCompare(correctText)

\* mutant of isNearCorrect: extra words are not looked at
isNearCorrectIgnoringExtra(al) ==
    countType(al, "missing") = 0 /\ countType(al, "near") > 0

\* mutant of isNearCorrect: a single typo is not enough
isNearCorrectNeedsTwoTypos(al) ==
    /\ countType(al, "missing") = 0
    /\ countType(al, "extra") = 0
    /\ countType(al, "near") > 1

isNearCorrect(al) ==
    /\ countType(al, "missing") = 0
    /\ countType(al, "extra") = 0
    /\ countType(al, "near") > 0

---------------------------------------------------------------------------
(* DictationMode: handlers.  Each is the whole method; the audio element   *)
(* it also drives is represented by playRequest, the segment last handed   *)
(* to seeker.seekAndPlay.                                                  *)

inSegment == currentIndex < Len(segments)

\* showSummary
showSummary ==
    /\ summaryShown' = TRUE
    /\ finalScore' = correctCount

\* render at this.currentIndex = idx
render(idx) ==
    IF idx >= Len(segments)
    THEN /\ showSummary
         /\ UNCHANGED <<isChecked, attempts, inputValue, inputDisabled,
                        btnCheckHidden, btnNextHidden, btnRevealHidden,
                        feedbackHidden, playButton, progressArg, visited,
                        countAtRender>>
    ELSE /\ isChecked' = FALSE
         /\ attempts' = 0
         /\ inputValue' = <<>>
         /\ inputDisabled' = FALSE
         /\ btnCheckHidden' = FALSE
         /\ btnNextHidden' = TRUE
         /\ btnRevealHidden' = IF btnRevealPresent THEN TRUE ELSE btnRevealHidden
         /\ feedbackHidden' = TRUE
         /\ playButton' = "play"
         /\ progressArg' = idx
         /\ visited' = visited + 1
         /\ countAtRender' = correctCount
         /\ UNCHANGED <<summaryShown, finalScore>>

\* playCurrentSegment at this.currentIndex = idx
playCurrentSegment(idx) ==
    IF idx >= Len(segments)
    THEN UNCHANGED playRequest
    ELSE playRequest' = idx

nextSegment ==
    /\ currentIndex' = currentIndex + 1
    /\ render(currentIndex + 1)
    /\ playCurrentSegment(currentIndex + 1)
    /\ lastCall' = "nextSegment"
    /\ threw' = FALSE
    /\ UNCHANGED <<segments, btnRevealPresent, correctCount, feedbackContent>>

\* mutant of checkAnswerEmpty: a blank submission is counted as an attempt
checkAnswerEmptyCounted ==
    /\ playButton' = "play"
    /\ feedbackHidden' = FALSE
    /\ feedbackContent' = "noAnswer"
    /\ attempts' = attempts + 1
    /\ btnRevealHidden' = IF attempts + 1 >= MAX_ATTEMPTS /\ btnRevealPresent
                          THEN FALSE ELSE btnRevealHidden
    /\ UNCHANGED <<currentIndex, isChecked, correctCount, inputValue,
                   inputDisabled, btnCheckHidden, btnNextHidden, summaryShown,
                   finalScore>>

\* lines 537-548: nothing typed
checkAnswerEmpty ==
    /\ playButton' = "play"
    /\ feedbackHidden' = FALSE
    /\ feedbackContent' = "noAnswer"
    /\ UNCHANGED <<modeVars, inputValue, inputDisabled, btnCheckHidden,
                   btnNextHidden, btnRevealHidden, summaryShown, finalScore>>

\* line 552 on the summary screen: seg is undefined, seg.correct_text throws
checkAnswerNoSegment ==
    /\ playButton' = "play"
    /\ UNCHANGED <<modeVars, inputValue, inputDisabled, btnCheckHidden,
                   btnNextHidden, btnRevealHidden, feedbackHidden,
                   feedbackContent, summaryShown, finalScore>>

\* lines 565-597
checkAnswerAccept ==
    /\ playButton' = "play"
    /\ isChecked' = TRUE
    /\ correctCount' = correctCount + 1
    /\ feedbackHidden' = FALSE
    /\ feedbackContent' =
           IF isExactCorrect(trim(inputValue), segments[currentIndex + 1])
           THEN "correct" ELSE "nearCorrect"
    /\ inputDisabled' = TRUE
    /\ btnCheckHidden' = TRUE
    /\ btnRevealHidden' = IF btnRevealPresent THEN TRUE ELSE btnRevealHidden
    /\ btnNextHidden' = FALSE
    /\ UNCHANGED <<currentIndex, attempts, inputValue, summaryShown, finalScore>>

\* mutant of checkAnswerReject: the reveal button is shown one attempt early
checkAnswerRejectEarlyReveal ==
    /\ playButton' = "play"
    /\ attempts' = attempts + 1
    /\ feedbackHidden' = FALSE
    /\ feedbackContent' = "incorrect"
    /\ inputDisabled' = FALSE
    /\ btnRevealHidden' = IF attempts + 1 >= MAX_ATTEMPTS - 1 /\ btnRevealPresent
                          THEN FALSE ELSE btnRevealHidden
    /\ UNCHANGED <<currentIndex, isChecked, correctCount, inputValue,
                   btnCheckHidden, btnNextHidden, summaryShown, finalScore>>

\* lines 599-621
checkAnswerReject ==
    /\ playButton' = "play"
    /\ attempts' = attempts + 1
    /\ feedbackHidden' = FALSE
    /\ feedbackContent' = "incorrect"
    /\ inputDisabled' = FALSE
    /\ btnRevealHidden' = IF attempts + 1 >= MAX_ATTEMPTS /\ btnRevealPresent
                          THEN FALSE ELSE btnRevealHidden
    /\ UNCHANGED <<currentIndex, isChecked, correctCount, inputValue,
                   btnCheckHidden, btnNextHidden, summaryShown, finalScore>>

\* mutant of alreadyChecked: the guard of line 530 is missing
alreadyCheckedIgnored == FALSE

\* line 530: if (this.isChecked) return
alreadyChecked == isChecked

checkAnswer ==
    /\ lastCall' = "checkAnswer"
    /\ UNCHANGED <<segments, btnRevealPresent, progressArg, playRequest,
                   visited, countAtRender>>
    /\ IF alreadyChecked
       THEN /\ threw' = FALSE
            /\ UNCHANGED <<modeVars, domVars>>
       ELSE LET userText == trim(inputValue) IN
            IF userText = <<>>
            THEN threw' = FALSE /\ checkAnswerEmpty
            ELSE IF ~inSegment
            THEN threw' = TRUE /\ checkAnswerNoSegment
            ELSE LET correctText == segments[currentIndex + 1]
                     al == lcsAlign(wordsOf(userText), wordsOf(correctText))
                 IN  /\ threw' = FALSE
                     /\ IF isExactCorrect(userText, correctText) \/ isNearCorrect(al)
                        THEN checkAnswerAccept
                        ELSE checkAnswerReject

revealAnswer ==
    /\ lastCall' = "revealAnswer"
    /\ isChecked' = TRUE
    /\ UNCHANGED <<segments, btnRevealPresent, currentIndex, correctCount,
                   attempts, playButton, summaryShown, finalScore,
                   progressArg, playRequest, visited, countAtRender>>
    /\ IF ~inSegment
       THEN \* seg is undefined: line 628 throws after isChecked is set
            /\ threw' = TRUE
            /\ UNCHANGED <<inputValue, inputDisabled, btnCheckHidden,
                           btnNextHidden, btnRevealHidden, feedbackHidden,
                           feedbackContent>>
       ELSE /\ threw' = FALSE
            /\ inputValue' = segments[currentIndex + 1]
            /\ inputDisabled' = TRUE
            /\ feedbackContent' = "answer"
            /\ feedbackHidden' = FALSE
            /\ btnCheckHidden' = TRUE
            /\ btnRevealHidden' = IF btnRevealPresent THEN TRUE ELSE btnRevealHidden
            /\ btnNextHidden' = FALSE

\* the learner edits the textarea
setInputValue(text) ==
    /\ inputValue' = text
    /\ lastCall' = "input"
    /\ threw' = FALSE
    /\ UNCHANGED <<segments, btnRevealPresent, modeVars, inputDisabled,
                   btnCheckHidden, btnNextHidden, btnRevealHidden,
                   feedbackHidden, feedbackContent, playButton, summaryShown,
                   finalScore, progressArg, playRequest, visited, countAtRender>>

---------------------------------------------------------------------------
(* DictationMode after new DictationApp(config): the constructor clamps    *)
(* initialIndex and render() shows the first segment.  config.segments is  *)
(* not empty (the page refuses to start otherwise); btnReveal is an        *)
(* optional member of config.dictationElements.                            *)

InitSession ==
    /\ segments \in SegmentLists
    /\ btnRevealPresent \in BOOLEAN
    /\ \E initialIndex \in (-1)..MaxSegments :
           currentIndex = Max2(0, Min2(initialIndex, Max2(0, Len(segments) - 1)))
    /\ isChecked = FALSE /\ correctCount = 0 /\ attempts = 0
    /\ inputValue = <<>> /\ inputDisabled = FALSE
    /\ btnCheckHidden = FALSE /\ btnNextHidden = TRUE /\ btnRevealHidden = TRUE
    /\ feedbackHidden = TRUE /\ feedbackContent = "" /\ playButton = "play"
    /\ summaryShown = FALSE /\ finalScore = -1
    /\ progressArg = currentIndex /\ playRequest = -1
    /\ lastCall = "render" /\ threw = FALSE /\ visited = 1 /\ countAtRender = 0
    /\ LevIdle /\ MatchIdle /\ AlignIdle /\ SeekIdle /\ PageIdle

---------------------------------------------------------------------------
(* Specification of the dictation page: the learner's events reach the     *)
(* handlers registered in setupEventListeners; a hidden button is not      *)
(* clicked and a disabled textarea gets no keys.                           *)

TypeAnswer ==
    /\ ~inputDisabled
    /\ \E text \in AnswerTexts : setInputValue(text)
    /\ UNCHANGED <<pureVars, seekVars, pageVars>>

ClickCheck ==
    /\ ~btnCheckHidden
    /\ attempts < MaxChecks
    /\ checkAnswer
    /\ UNCHANGED <<pureVars, seekVars, pageVars>>

ClickNext ==
    /\ ~btnNextHidden
    /\ currentIndex < Len(segments) + MaxOverrun
    /\ nextSegment
    /\ UNCHANGED <<pureVars, seekVars, pageVars>>

ClickReveal ==
    /\ btnRevealPresent
    /\ ~btnRevealHidden
    /\ revealAnswer
    /\ UNCHANGED <<pureVars, seekVars, pageVars>>

\* keydown Enter without Shift in the textarea
PressEnter ==
    /\ ~inputDisabled
    /\ attempts < MaxChecks
    /\ IF isChecked THEN nextSegment ELSE checkAnswer
    /\ UNCHANGED <<pureVars, seekVars, pageVars>>

Next == TypeAnswer \/ ClickCheck \/ ClickNext \/ ClickReveal \/ PressEnter

Init == InitSession

Spec == Init /\ [][Next]_vars

---------------------------------------------------------------------------
(* Specification of DictationMode driven through its methods in any order  *)

CallSetInput ==
    /\ \E text \in AnswerTexts : setInputValue(text)
    /\ UNCHANGED <<pureVars, seekVars, pageVars>>

CallCheckAnswer ==
    /\ attempts < MaxChecks
    /\ checkAnswer
    /\ UNCHANGED <<pureVars, seekVars, pageVars>>

CallRevealAnswer ==
    /\ revealAnswer
    /\ UNCHANGED <<pureVars, seekVars, pageVars>>

CallNextSegment ==
    /\ currentIndex < Len(segments) + MaxOverrun
    /\ nextSegment
    /\ UNCHANGED <<pureVars, seekVars, pageVars>>

NextCalls == CallSetInput \/ CallCheckAnswer \/ CallRevealAnswer \/ CallNextSegment

SpecCalls == InitSession /\ [][NextCalls]_vars

---------------------------------------------------------------------------
(* AudioSeeker and the audio element it drives.  Positions are whole       *)
(* seconds.  The element is the environment: a seek lands on the target or *)
(* at the start of the media, 'seeked' and 'canplay' arrive at any time or *)
(* never, play() is accepted or refused, and pause() rejects the play()    *)
(* promises that are still pending.  The operators below take and return   *)
(* a record of the element and the requests, so that a handler's calls     *)
(* compose in the order of the code.                                       *)

\* start_time and end_time of the segments of the page
SegmentTimes ==
    << [start_time |-> 0, end_time |-> 2], [start_time |-> 2, end_time |-> 3] >>

\* attempts >= 30 in the poll of seekAndPlay
SeekPollCap == 30

Abs(x) == IF x < 0 THEN -x ELSE x

\* Math.abs(this.audio.currentTime - targetTime) < 0.5
withinTolerance(t, targetTime) == 2 * Abs(t - targetTime) < 1

\* where this.audio.currentTime = targetTime can leave the position
LandingTimes(targetTime) == {targetTime, 0}

World ==
    [paused |-> audioPaused, time |-> audioTime, due |-> seekedDue,
     reqs |-> requests]

\* the state of a seekAndPlay(targetTime, endTime, onPlay, onEnd, false) call
\* at its entry; beforeStarted tells whether the call before it had not yet
\* run its onPlay
newRequest(targetTime, endTime, beforeStarted) ==
    [targetTime |-> targetTime, endTime |-> endTime,
     wait |-> "none", listener |-> FALSE, poll |-> FALSE,
     seekCompleted |-> FALSE, pollAttempts |-> 0, pts |-> "none",
     play |-> "none", endCheck |-> FALSE,
     startCalls |-> 0, started |-> 0, ended |-> 0,
     beforeStarted |-> beforeStarted]

\* request q still has a listener, a timer or a promise of its own
live(q) ==
    \/ q.wait # "none" \/ q.listener \/ q.poll
    \/ q.pts # "none" \/ q.play # "none" \/ q.endCheck

\* this.audio.pause()
audioPause(W) ==
    [W EXCEPT !.paused = TRUE,
              !.reqs = [k \in DOMAIN W.reqs |->
                  [W.reqs[k] EXCEPT
                      !.play = IF @ = "resolving" THEN "rejecting" ELSE @,
                      !.pts = IF @ = "awaitResolving" THEN "awaitRejecting" ELSE @]]]

\* this.audio.play()
audioPlay(W, allowed) ==
    [W EXCEPT !.paused = IF allowed THEN FALSE ELSE @]

\* this.audio.currentTime = targetTime
setCurrentTime(W, landed) ==
    [W EXCEPT !.time = landed, !.due = TRUE]

\* mutant of startPlayback: checkInterval is set before play() settles
startPlaybackArmsEndCheck(W, r, allowed) ==
    [audioPlay(W, allowed) EXCEPT
        !.reqs[r].play = IF allowed THEN "resolving" ELSE "rejecting",
        !.reqs[r].endCheck = TRUE,
        !.reqs[r].startCalls = @ + 1]

\* startPlayback up to the call of play()
startPlayback(W, r, allowed) ==
    [audioPlay(W, allowed) EXCEPT
        !.reqs[r].play = IF allowed THEN "resolving" ELSE "rejecting",
        !.reqs[r].startCalls = @ + 1]

\* playThenSeek up to its await
playThenSeek(W, r, allowed) ==
    [audioPlay(W, allowed) EXCEPT
        !.reqs[r].pts = IF allowed THEN "awaitResolving" ELSE "awaitRejecting"]

\* seekAndPlayInternal
seekAndPlayInternal(W, r, ready, landed) ==
    IF ~ready
    THEN [W EXCEPT !.reqs[r].wait = "canplay"]
    ELSE [setCurrentTime(W, landed) EXCEPT
             !.reqs[r].wait = "none",
             !.reqs[r].listener = TRUE,
             !.reqs[r].poll = TRUE,
             !.reqs[r].seekCompleted = FALSE,
             !.reqs[r].pollAttempts = 0]

\* onSeeked
onSeeked(W, r, allowed) ==
    LET W1 == [W EXCEPT !.reqs[r].seekCompleted = TRUE,
                        !.reqs[r].listener = FALSE]
    IN  IF withinTolerance(W.time, W.reqs[r].targetTime)
        THEN startPlayback(W1, r, allowed)
        ELSE playThenSeek(W1, r, allowed)

\* the 'seeked' listeners run in the order they were added
RECURSIVE dispatchSeeked(_, _, _)
dispatchSeeked(W, k, allowed) ==
    IF k > Len(W.reqs)
    THEN W
    ELSE dispatchSeeked(IF W.reqs[k].listener THEN onSeeked(W, k, allowed) ELSE W,
                        k + 1, allowed)

\* mutant of pollTick: the poll that confirms leaves the 'seeked' listener
pollTickKeepsListener(W, r, allowed) ==
    LET q == W.reqs[r]
        n == q.pollAttempts + 1
    IN  IF q.seekCompleted
        THEN [W EXCEPT !.reqs[r].poll = FALSE, !.reqs[r].pollAttempts = 0]
        ELSE IF withinTolerance(W.time, q.targetTime) \/ n >= SeekPollCap
             THEN startPlayback([W EXCEPT !.reqs[r].poll = FALSE,
                                          !.reqs[r].pollAttempts = 0],
                                r, allowed)
             ELSE [W EXCEPT !.reqs[r].pollAttempts = n]

\* mutant of pollTick: the poll has no cap
pollTickWithoutCap(W, r, allowed) ==
    LET q == W.reqs[r]
        n == q.pollAttempts + 1
    IN  IF q.seekCompleted
        THEN [W EXCEPT !.reqs[r].poll = FALSE, !.reqs[r].pollAttempts = 0]
        ELSE IF withinTolerance(W.time, q.targetTime)
             THEN startPlayback([W EXCEPT !.reqs[r].poll = FALSE,
                                          !.reqs[r].pollAttempts = 0,
                                          !.reqs[r].listener = FALSE,
                                          !.reqs[r].seekCompleted = TRUE],
                                r, allowed)
             ELSE [W EXCEPT !.reqs[r].pollAttempts = Min2(n, SeekPollCap)]

\* one run of the poll interval; attempts is dead once the interval is cleared
pollTick(W, r, allowed) ==
    LET q == W.reqs[r]
        n == q.pollAttempts + 1
    IN  IF q.seekCompleted
        THEN [W EXCEPT !.reqs[r].poll = FALSE, !.reqs[r].pollAttempts = 0]
        ELSE IF withinTolerance(W.time, q.targetTime) \/ n >= SeekPollCap
             THEN startPlayback([W EXCEPT !.reqs[r].poll = FALSE,
                                          !.reqs[r].pollAttempts = 0,
                                          !.reqs[r].listener = FALSE,
                                          !.reqs[r].seekCompleted = TRUE],
                                r, allowed)
             ELSE [W EXCEPT !.reqs[r].pollAttempts = n]

\* mutant of playSettled: checkInterval is set when play() is refused too
playSettledArmsOnReject(W, r) ==
    IF W.reqs[r].play = "resolving"
    THEN [W EXCEPT !.reqs[r].play = "none",
                   !.reqs[r].started = @ + 1,
                   !.reqs[r].endCheck = (W.reqs[r].endTime # 0)]
    ELSE [W EXCEPT !.reqs[r].play = "none",
                   !.reqs[r].endCheck = (W.reqs[r].endTime # 0)]

\* the promise of startPlayback's play() settles
playSettled(W, r) ==
    IF W.reqs[r].play = "resolving"
    THEN [W EXCEPT !.reqs[r].play = "none",
                   !.reqs[r].started = @ + 1,
                   !.reqs[r].endCheck = (W.reqs[r].endTime # 0)]
    ELSE [W EXCEPT !.reqs[r].play = "none"]

\* the promise awaited by playThenSeek settles
playThenSeekSettled(W, r, allowed) ==
    IF W.reqs[r].pts = "awaitResolving"
    THEN audioPause([W EXCEPT !.reqs[r].pts = "timer1"])
    ELSE startPlayback([W EXCEPT !.reqs[r].pts = "none"], r, allowed)

\* mutant of endCheckTick: the position is not compared with endTime
endCheckTickIgnoringTime(W, r) ==
    IF ~W.paused
    THEN audioPause([W EXCEPT !.reqs[r].endCheck = FALSE,
                              !.reqs[r].ended = @ + 1])
    ELSE W

\* one run of checkInterval
endCheckTick(W, r) ==
    IF ~W.paused /\ W.time >= W.reqs[r].endTime
    THEN audioPause([W EXCEPT !.reqs[r].endCheck = FALSE,
                              !.reqs[r].ended = @ + 1])
    ELSE W

---------------------------------------------------------------------------
(* Specification of one AudioSeeker on one audio element: a mode asks for  *)
(* segments, pauses and stops, and the element's events and the timers     *)
(* run in any order.  The runs of a poll that neither confirm the seek nor  *)
(* reach the cap change nothing but its counter, so they are followed      *)
(* back to back: once a poll has counted, no other step is taken until it  *)
(* has ended.  Two requests are followed side by side: a further request   *)
(* is made once all but the last have nothing left to run.                 *)

\* some poll has counted and not ended
pollCounting == \E r \in DOMAIN requests : requests[r].pollAttempts > 0

\* the mode and the segment of request r; a request made by no mode has
\* callbacks that do nothing
ownerOf(r) == IF r \in DOMAIN owners THEN owners[r]
              ELSE [mode |-> "none", idx |-> 0]

\* the requests whose onPlay, and whose onEnd, is run by the step to W
startedNow(W, mode) ==
    {r \in DOMAIN requests : /\ W.reqs[r].started > requests[r].started
                             /\ ownerOf(r).mode = mode}
endedNow(W, mode) ==
    {r \in DOMAIN requests : /\ W.reqs[r].ended > requests[r].ended
                             /\ ownerOf(r).mode = mode}

\* the segments of a set of at most one request, as a sequence
segmentsOf(R) == IF R = {} THEN <<>> ELSE << ownerOf(CHOOSE r \in R : TRUE).idx >>

\* the onEnd callback of playCurrentSegment: the replay timers after it
dictationOnEnd(W) ==
    IF autoReplay THEN replayTimers \o segmentsOf(endedNow(W, "dictation"))
    ELSE replayTimers

\* the 'pause' or 'play' event the audio element queues for the step to W
queuedMediaEvents(W) ==
    IF ~transActive THEN <<>>
    ELSE IF ~audioPaused /\ W.paused THEN <<"pause">>
    ELSE IF audioPaused /\ ~W.paused THEN <<"play">>
    ELSE <<>>

\* the onPlay callback of playSegment and handleEnd, its onEnd callback
transcriptCallbacks(W) ==
    LET st == segmentsOf(startedNow(W, "transcript"))
        en == segmentsOf(endedNow(W, "transcript"))
        playing == IF st # <<>> THEN TRUE ELSE transIsPlaying
        goesOn == en # <<>> /\ continuousPlaying /\ playing
        hasNext == goesOn /\ en[1] + 1 < Len(SegmentTimes)
    IN  /\ gapTimers' = IF hasNext THEN Append(gapTimers, en[1] + 1) ELSE gapTimers
        /\ handlePending' = IF hasNext THEN TRUE ELSE handlePending
        /\ transIsPlaying' = IF goesOn /\ ~hasNext THEN FALSE ELSE playing
        /\ transLog' = transLog
                          \o [k \in 1..Len(st) |-> <<"play", st[k], W.time>>]
                          \o [k \in 1..Len(en) |-> <<"end", en[k], W.time>>]

commitSeeker(W, name, r) ==
    /\ audioPaused' = W.paused
    /\ audioTime' = W.time
    /\ seekedDue' = W.due
    /\ requests' = W.reqs
    /\ seekEvent' = <<name, r>>
    /\ mediaEvents' = mediaEvents \o queuedMediaEvents(W)
    /\ UNCHANGED <<pureVars, sessVars, bootVars, progVars, badgeVars, flashVars>>

\* a step of the seeker and of the callbacks it runs
step(W, name, r) ==
    /\ commitSeeker(W, name, r)
    /\ replayTimers' = dictationOnEnd(W)
    /\ transcriptCallbacks(W)
    /\ UNCHANGED <<owners, autoReplay, playIndex, firedFor, transActive,
                   continuousPlaying>>

InitSeeker ==
    /\ audioPaused = TRUE /\ audioTime = 0 /\ audioReady \in BOOLEAN
    /\ seekedDue = FALSE /\ requests = <<>>
    /\ seekEvent = <<"idle", 0>> /\ stopped = FALSE
    /\ LevIdle /\ MatchIdle /\ AlignIdle /\ SessIdle /\ PageIdle

\* playCurrentSegment / playSegment: pause, then seekAndPlay
RequestSegment ==
    /\ ~pollCounting
    /\ Len(requests) < MaxRequests
    /\ \A k \in DOMAIN requests : k < Len(requests) => ~live(requests[k])
    /\ \E seg \in DOMAIN SegmentTimes :
       \E landed \in LandingTimes(SegmentTimes[seg].start_time) :
          LET r == Len(requests) + 1
              W1 == audioPause(World)
              q == newRequest(SegmentTimes[seg].start_time,
                              SegmentTimes[seg].end_time,
                              requests # <<>> /\ requests[Len(requests)].started = 0)
              W2 == [W1 EXCEPT !.reqs = Append(@, q)]
          IN  step(seekAndPlayInternal(W2, r, audioReady, landed), "request", r)
    /\ stopped' = FALSE
    /\ UNCHANGED audioReady

\* btnPlay while the audio plays
ClickPause ==
    /\ ~pollCounting
    /\ ~audioPaused
    /\ step(audioPause(World), "pause", 0)
    /\ UNCHANGED <<audioReady, stopped>>

\* DictationMode.stop, TranscriptMode.stop
StopMode ==
    /\ ~pollCounting
    /\ step(audioPause(World), "stop", 0)
    /\ stopped' = TRUE
    /\ UNCHANGED audioReady

CanPlayEvent ==
    /\ ~pollCounting
    /\ ~audioReady
    /\ audioReady' = TRUE
    /\ step([World EXCEPT !.reqs = [k \in DOMAIN requests |->
                 [requests[k] EXCEPT !.wait = IF @ = "canplay" THEN "retry" ELSE @]]],
            "canplay", 0)
    /\ UNCHANGED stopped

\* setTimeout(seekAndPlayInternal, 100)
RetryTimer ==
    /\ ~pollCounting
    /\ \E r \in DOMAIN requests :
          /\ requests[r].wait = "retry"
          /\ \E landed \in LandingTimes(requests[r].targetTime) :
                step(seekAndPlayInternal([World EXCEPT !.reqs[r].wait = "none"],
                                         r, audioReady, landed),
                     "retry", r)
    /\ UNCHANGED <<audioReady, stopped>>

SeekedEvent ==
    /\ ~pollCounting
    /\ seekedDue
    /\ \E allowed \in BOOLEAN :
          step(dispatchSeeked([World EXCEPT !.due = FALSE], 1, allowed), "seeked", 0)
    /\ UNCHANGED <<audioReady, stopped>>

PollTick ==
    /\ \E r \in DOMAIN requests :
          /\ requests[r].poll
          /\ pollCounting => requests[r].pollAttempts > 0
          /\ \E allowed \in BOOLEAN : step(pollTick(World, r, allowed), "poll", r)
    /\ UNCHANGED <<audioReady, stopped>>

PlaySettled ==
    /\ ~pollCounting
    /\ \E r \in DOMAIN requests :
          /\ requests[r].play # "none"
          /\ step(playSettled(World, r), "settled", r)
    /\ UNCHANGED <<audioReady, stopped>>

PlayThenSeekSettled ==
    /\ ~pollCounting
    /\ \E r \in DOMAIN requests :
          /\ requests[r].pts \in {"awaitResolving", "awaitRejecting"}
          /\ \E allowed \in BOOLEAN :
                step(playThenSeekSettled(World, r, allowed), "ptsSettled", r)
    /\ UNCHANGED <<audioReady, stopped>>

\* setTimeout(..., 50) of playThenSeek
PlayThenSeekTimer1 ==
    /\ ~pollCounting
    /\ \E r \in DOMAIN requests :
          /\ requests[r].pts = "timer1"
          /\ \E landed \in LandingTimes(requests[r].targetTime) :
                step(setCurrentTime([World EXCEPT !.reqs[r].pts = "timer2"], landed),
                     "ptsTimer1", r)
    /\ UNCHANGED <<audioReady, stopped>>

\* setTimeout(..., 100) of playThenSeek
PlayThenSeekTimer2 ==
    /\ ~pollCounting
    /\ \E r \in DOMAIN requests :
          /\ requests[r].pts = "timer2"
          /\ \E allowed \in BOOLEAN :
                step(startPlayback([World EXCEPT !.reqs[r].pts = "none"], r, allowed),
                     "ptsTimer2", r)
    /\ UNCHANGED <<audioReady, stopped>>

EndCheckTick ==
    /\ ~pollCounting
    /\ \E r \in DOMAIN requests :
          /\ requests[r].endCheck
          /\ step(endCheckTick(World, r), "endCheck", r)
    /\ UNCHANGED <<audioReady, stopped>>

\* the audio plays on
MediaAdvance ==
    /\ ~pollCounting
    /\ ~audioPaused
    /\ audioTime < MaxTime
    /\ step([World EXCEPT !.time = @ + 1], "advance", 0)
    /\ UNCHANGED <<audioReady, stopped>>

NextSeeker ==
    \/ RequestSegment \/ ClickPause \/ StopMode
    \/ CanPlayEvent \/ RetryTimer \/ SeekedEvent \/ PollTick
    \/ PlaySettled \/ PlayThenSeekSettled \/ PlayThenSeekTimer1
    \/ PlayThenSeekTimer2 \/ EndCheckTick \/ MediaAdvance

SpecSeeker == InitSeeker /\ [][NextSeeker]_vars

---------------------------------------------------------------------------
(* DictationMode playing its segments through AudioSeeker, with the        *)
(* autoReplay setting.  Segment idx of the code is SegmentTimes[idx + 1].  *)

\* seekAndPlay for segment idx, after the pause that precedes it
seekSegment(W, idx, landed) ==
    LET seg == SegmentTimes[idx + 1]
        W1 == audioPause(W)
        q == newRequest(seg.start_time, seg.end_time,
                        W.reqs # <<>> /\ W.reqs[Len(W.reqs)].started = 0)
    IN  seekAndPlayInternal([W1 EXCEPT !.reqs = Append(@, q)],
                            Len(W.reqs) + 1, audioReady, landed)

\* a mode's step that calls seekAndPlay for segment idx
requestStep(mode, idx, name) ==
    /\ ~pollCounting
    /\ Len(requests) < MaxRequests
    /\ \E landed \in LandingTimes(SegmentTimes[idx + 1].start_time) :
          commitSeeker(seekSegment(World, idx, landed), name, Len(requests) + 1)
    /\ owners' = Append(owners, [mode |-> mode, idx |-> idx])
    /\ stopped' = FALSE
    /\ UNCHANGED audioReady

InitReplay ==
    /\ audioPaused = TRUE /\ audioTime = 0 /\ audioReady \in BOOLEAN
    /\ seekedDue = FALSE /\ requests = <<>>
    /\ seekEvent = <<"idle", 0>> /\ stopped = FALSE
    /\ owners = <<>>
    /\ autoReplay \in BOOLEAN
    /\ playIndex \in 0..(Len(SegmentTimes) - 1)
    /\ replayTimers = <<>> /\ firedFor = -1
    /\ transActive = FALSE /\ continuousPlaying = FALSE /\ transIsPlaying = FALSE
    /\ gapTimers = <<>> /\ handlePending = FALSE /\ mediaEvents = <<>>
    /\ transLog = <<>>
    /\ LevIdle /\ MatchIdle /\ AlignIdle /\ SessIdle
    /\ BootIdle /\ ProgIdle /\ BadgeIdle /\ FlashIdle

\* btnPlay while the audio is paused, the play key or the replay key:
\* playCurrentSegment()
DictPlay ==
    /\ playIndex < Len(SegmentTimes)
    /\ requestStep("dictation", playIndex, "play")
    /\ UNCHANGED <<autoReplay, playIndex, replayTimers, firedFor, transActive,
                   continuousPlaying, transIsPlaying, gapTimers, handlePending,
                   transLog>>

\* nextSegment(): currentIndex++, render(), playCurrentSegment()
DictNext ==
    /\ playIndex < Len(SegmentTimes)
    /\ playIndex' = playIndex + 1
    /\ IF playIndex' < Len(SegmentTimes)
       THEN requestStep("dictation", playIndex', "next")
       ELSE /\ ~pollCounting
            /\ commitSeeker(World, "next", 0)
            /\ UNCHANGED <<owners, stopped, audioReady>>
    /\ UNCHANGED <<autoReplay, replayTimers, firedFor, transActive,
                   continuousPlaying, transIsPlaying, gapTimers, handlePending,
                   transLog>>

\* the timer set by onEnd: playCurrentSegment()
ReplayTimer ==
    /\ replayTimers # <<>>
    /\ replayTimers' = Tail(replayTimers)
    /\ firedFor' = Head(replayTimers)
    /\ IF playIndex < Len(SegmentTimes)
       THEN requestStep("dictation", playIndex, "replay")
       ELSE /\ ~pollCounting
            /\ commitSeeker(World, "replay", 0)
            /\ UNCHANGED <<owners, stopped, audioReady>>
    /\ UNCHANGED <<autoReplay, playIndex, transActive, continuousPlaying,
                   transIsPlaying, gapTimers, handlePending, transLog>>

NextReplay ==
    \/ DictPlay \/ DictNext \/ ReplayTimer \/ ClickPause \/ StopMode
    \/ CanPlayEvent \/ RetryTimer \/ SeekedEvent \/ PollTick
    \/ PlaySettled \/ PlayThenSeekSettled \/ PlayThenSeekTimer1
    \/ PlayThenSeekTimer2 \/ EndCheckTick \/ MediaAdvance

SpecReplay == InitReplay /\ [][NextReplay]_vars

---------------------------------------------------------------------------
(* TranscriptMode playing on from a segment with nobody touching the page. *)
(* The media element's events are tasks run in the order they were queued, *)
(* before any timer or promise callback queued after them; a due tick of   *)
(* the 50 ms end check, or a waiting callback of a play() promise, runs    *)
(* before the audio has moved on by a second; the 1000 ms timer of         *)
(* handleEnd runs after the shorter timers of the seeker.                  *)

\* if (this.continuousPlaying) of the timer set by handleEnd
gapPlaysOnlyWhilePlaying == continuousPlaying /\ transIsPlaying
gapPlays == continuousPlaying

\* clearTimeout(this.nextSegmentTimeout) on the timers still pending
clearNextSegmentTimeout(timers) ==
    IF handlePending /\ timers # <<>> THEN SubSeq(timers, 1, Len(timers) - 1)
    ELSE timers

\* playSegment(idx, true) once the timers still pending are known
playSegment(idx, name, timers) ==
    /\ requestStep("transcript", idx, name)
    /\ gapTimers' = clearNextSegmentTimeout(timers)
    /\ handlePending' = FALSE
    /\ continuousPlaying' = TRUE
    /\ UNCHANGED <<autoReplay, playIndex, replayTimers, firedFor, transActive,
                   transIsPlaying, transLog>>

shortTimerPending ==
    \E r \in DOMAIN requests :
        \/ requests[r].wait = "retry" \/ requests[r].poll
        \/ requests[r].pts \in {"timer1", "timer2"}

endCheckDue ==
    \E r \in DOMAIN requests :
        requests[r].endCheck /\ ~audioPaused /\ audioTime >= requests[r].endTime

\* a callback of a play() promise is waiting to run
promisePending ==
    \E r \in DOMAIN requests :
        \/ requests[r].play # "none"
        \/ requests[r].pts \in {"awaitResolving", "awaitRejecting"}

InitTranscript ==
    /\ audioPaused = TRUE /\ audioTime = 0 /\ audioReady \in BOOLEAN
    /\ seekedDue = FALSE /\ requests = <<>>
    /\ seekEvent = <<"idle", 0>> /\ stopped = FALSE
    /\ owners = <<>>
    /\ autoReplay = FALSE /\ playIndex = 0
    /\ replayTimers = <<>> /\ firedFor = -1
    /\ transActive = TRUE /\ continuousPlaying = TRUE /\ transIsPlaying = FALSE
    /\ gapTimers = <<>> /\ handlePending = FALSE /\ mediaEvents = <<>>
    /\ transLog = <<>>
    /\ LevIdle /\ MatchIdle /\ AlignIdle /\ SessIdle
    /\ BootIdle /\ ProgIdle /\ BadgeIdle /\ FlashIdle

\* autoStartIfNeeded, or the click that starts the playback: playSegment(i, true)
TransStart ==
    /\ requests = <<>>
    /\ \E i \in 0..(Len(SegmentTimes) - 1) : playSegment(i, "start", gapTimers)

\* the timer set by handleEnd
GapTimer ==
    /\ ~pollCounting
    /\ mediaEvents = <<>>
    /\ ~shortTimerPending
    /\ gapTimers # <<>>
    /\ IF gapPlays
       THEN playSegment(Head(gapTimers), "gap", Tail(gapTimers))
       ELSE /\ commitSeeker(World, "gap", 0)
            /\ gapTimers' = Tail(gapTimers)
            /\ UNCHANGED <<owners, stopped, audioReady, autoReplay, playIndex,
                           replayTimers, firedFor, transActive, continuousPlaying,
                           transIsPlaying, handlePending, transLog>>

\* the 'pause' and 'play' listeners of TranscriptMode
MediaEventDispatch ==
    /\ mediaEvents # <<>>
    /\ mediaEvents' = Tail(mediaEvents)
    /\ transIsPlaying' = (Head(mediaEvents) = "play")
    /\ seekEvent' = <<"media", 0>>
    /\ UNCHANGED <<pureVars, sessVars, bootVars, progVars, badgeVars, flashVars,
                   audioPaused, audioTime, audioReady, seekedDue, requests,
                   stopped, owners, autoReplay, playIndex, replayTimers,
                   firedFor, transActive, continuousPlaying, gapTimers,
                   handlePending, transLog>>

NextTranscript ==
    \/ TransStart \/ GapTimer \/ MediaEventDispatch
    \/ (mediaEvents = <<>> /\ CanPlayEvent)
    \/ (mediaEvents = <<>> /\ RetryTimer)
    \/ (mediaEvents = <<>> /\ SeekedEvent)
    \/ (mediaEvents = <<>> /\ PollTick)
    \/ (mediaEvents = <<>> /\ PlaySettled)
    \/ (mediaEvents = <<>> /\ PlayThenSeekSettled)
    \/ (mediaEvents = <<>> /\ PlayThenSeekTimer1)
    \/ (mediaEvents = <<>> /\ PlayThenSeekTimer2)
    \/ (mediaEvents = <<>> /\ EndCheckTick)
    \/ (~endCheckDue /\ ~promisePending /\ MediaAdvance)

SpecTranscript == InitTranscript /\ [][NextTranscript]_vars

---------------------------------------------------------------------------
(* Page load: the DOMContentLoaded handler reads the segments of the       *)
(* page's JSON, normalizes them and hands them to DictationApp; the modes  *)
(* then hand the times of a segment to seekAndPlay.  A JSON value is       *)
(* <<"absent", 0>> (null or no such key), <<"num", n>> or <<"text", 0>>    *)
(* (a string that is not a number).                                        *)

Absent  == <<"absent", 0>>
Num(n)  == <<"num", n>>
NotANumber == <<"text", 0>>

rawSegment(type, start_time, start, end_time, end) ==
    [type |-> type, start_time |-> start_time, start |-> start,
     end_time |-> end_time, end |-> end]

\* segments as the server may send them
RawSegments ==
    { rawSegment("", Num(0), Absent, Num(2), Absent),
      rawSegment("content", Num(2), Absent, Num(3), Absent),
      rawSegment("CONTENT", Absent, Num(0), Absent, Num(1)),
      rawSegment("title", Num(0), Absent, Num(1), Absent),
      rawSegment("", Num(2), Absent, Num(2), Absent),
      rawSegment("content", Num(2), Absent, Num(1), Absent),
      rawSegment("", Num(-1), Absent, Num(1), Absent),
      rawSegment("", NotANumber, Num(1), Absent, Absent) }

RawSegmentLists == UNION {[1..n -> RawSegments] : n \in 0..MaxRawSegments}

\* (s.type || "").toLowerCase()
lowerType(t) == IF t = "CONTENT" THEN "content" ELSE t

\* a != null ? a : b
orElse(a, b) == IF a # Absent THEN a ELSE b

\* parseFloat(v) || 0
parseFloatOrZero(v) == IF v[1] = "num" THEN v[2] ELSE 0

\* the filter of the normalization
keepSegment(s) == lowerType(s.type) \in {"", "content"}

\* the map of the normalization
normalizeSegment(s) ==
    [start_time |-> parseFloatOrZero(orElse(s.start_time, s.start)),
     end_time   |-> parseFloatOrZero(orElse(s.end_time, s.end))]

normalizeSegments(raw) ==
    LET kept == SelectSeq(raw, keepSegment)
    IN  [k \in 1..Len(kept) |-> normalizeSegment(kept[k])]

InitBoot ==
    /\ rawSegments \in RawSegmentLists
    /\ loadedSegments = <<>> /\ bootPc = "loading" /\ handed = <<>>
    /\ LevIdle /\ MatchIdle /\ AlignIdle /\ SessIdle /\ SeekIdle /\ ProgIdle
    /\ BadgeIdle /\ FlashIdle /\ PlayIdle

\* DOMContentLoaded: without segments the page shows that there is no data
LoadPage ==
    /\ bootPc = "loading"
    /\ loadedSegments' = normalizeSegments(rawSegments)
    /\ bootPc' = IF loadedSegments' = <<>> THEN "nodata" ELSE "running"
    /\ UNCHANGED <<rawSegments, handed, besideBoot>>

\* playCurrentSegment / playSegment(idx): the times of the segment go to
\* seekAndPlay
PlayLoadedSegment ==
    /\ bootPc = "running"
    /\ \E idx \in DOMAIN loadedSegments :
          handed' = <<loadedSegments[idx].start_time, loadedSegments[idx].end_time>>
    /\ UNCHANGED <<rawSegments, loadedSegments, bootPc, besideBoot>>

NextBoot == LoadPage \/ PlayLoadedSegment

SpecBoot == InitBoot /\ [][NextBoot]_vars

---------------------------------------------------------------------------
(* Progress reports: DictationMode.render calls onProgress, which restarts *)
(* a timer of 300 ms whose callback posts the index to the server.  Time   *)
(* passes in steps of 100 ms; a timer that is due runs before time passes  *)
(* on and before the next event is handled.                                *)

DEBOUNCE_MS == 300

timerDue == \E k \in DOMAIN progTimers : progTimers[k].left = 0

\* clearTimeout(window._dictProgressTimer): the timer armed last
clearProgressTimer(timers) ==
    IF timers = <<>> THEN timers ELSE SubSeq(timers, 1, Len(timers) - 1)

\* mutant of onProgress: the pending timer is not cleared
onProgressKeepsTimer(timers, index, total) ==
    IF ~progEnabled THEN timers
    ELSE Append(timers, [left |-> DEBOUNCE_MS, index |-> index, total |-> total])

\* onProgress(currentIndex, total): the timers after the call
onProgress(timers, index, total) ==
    IF ~progEnabled THEN timers
    ELSE Append(clearProgressTimer(timers),
                [left |-> DEBOUNCE_MS, index |-> index, total |-> total])

\* render() of a segment, seen from the progress reports
renderSegment(timers, index, total) == onProgress(timers, index, total)

InitProgress ==
    /\ progEnabled \in BOOLEAN
    /\ progTotal \in 1..(MaxSegments + 1)
    /\ progIndex \in 0..(progTotal - 1)
    /\ progTimers = renderSegment(<<>>, progIndex, progTotal)
    /\ progSent = <<>> /\ progInFlight = 0
    /\ sinceRender = 0
    /\ burst = << <<progIndex, progTotal>> >>
    /\ burstSent = 0
    /\ progEvent = "render"
    /\ LevIdle /\ MatchIdle /\ AlignIdle /\ SessIdle /\ SeekIdle /\ BootIdle
    /\ BadgeIdle /\ FlashIdle /\ PlayIdle

\* nextSegment: currentIndex++, render()
ProgressNextSegment ==
    /\ ~timerDue
    /\ progIndex < progTotal
    /\ progIndex' = progIndex + 1
    /\ IF progIndex' >= progTotal
       THEN /\ progEvent' = "summary"
            /\ UNCHANGED <<progTimers, sinceRender, burst, burstSent>>
       ELSE /\ progTimers' = renderSegment(progTimers, progIndex', progTotal)
            /\ sinceRender' = 0
            /\ burst' = IF sinceRender < DEBOUNCE_MS
                        THEN Append(burst, <<progIndex', progTotal>>)
                        ELSE << <<progIndex', progTotal>> >>
            /\ burstSent' = IF sinceRender < DEBOUNCE_MS THEN burstSent ELSE 0
            /\ progEvent' = "render"
    /\ UNCHANGED <<progEnabled, progTotal, progSent, progInFlight, besideProg>>

\* the callback of the timer: fetch(progressApi, ...)
ProgressTimerFires ==
    /\ \E k \in DOMAIN progTimers :
          /\ progTimers[k].left = 0
          /\ progSent' = Append(progSent, <<progTimers[k].index, progTimers[k].total>>)
          /\ progTimers' = SubSeq(progTimers, 1, k - 1)
                              \o SubSeq(progTimers, k + 1, Len(progTimers))
    /\ progInFlight' = progInFlight + 1
    /\ burstSent' = burstSent + 1
    /\ progEvent' = "sent"
    /\ UNCHANGED <<progEnabled, progIndex, progTotal, sinceRender, burst, besideProg>>

\* the server answers, or the request fails: .then(...).catch(() => {})
ProgressSinkResponds ==
    /\ ~timerDue
    /\ progInFlight > 0
    /\ progInFlight' = progInFlight - 1
    /\ \E ok \in BOOLEAN : progEvent' = IF ok THEN "answered" ELSE "failed"
    /\ UNCHANGED <<progEnabled, progIndex, progTotal, progTimers, progSent,
                   sinceRender, burst, burstSent, besideProg>>

\* 100 ms pass
ProgressTick ==
    /\ ~timerDue
    /\ sinceRender < DEBOUNCE_MS
    /\ sinceRender' = sinceRender + 100
    /\ progTimers' = [k \in DOMAIN progTimers |->
                         [progTimers[k] EXCEPT !.left = @ - 100]]
    /\ progEvent' = "tick"
    /\ UNCHANGED <<progEnabled, progIndex, progTotal, progSent, progInFlight,
                   burst, burstSent, besideProg>>

NextProgress ==
    \/ ProgressNextSegment \/ ProgressTimerFires \/ ProgressSinkResponds
    \/ ProgressTick

SpecProgress == InitProgress /\ [][NextProgress]_vars

---------------------------------------------------------------------------
(* static/js/badge_popup.js: BadgeManager.  The popup template is on the   *)
(* page.  A badge is the number it got when it was enqueued.               *)

BadgeState == [queue |-> badgeQueue, showing |-> isShowing, overlay |-> overlayBadge,
               log |-> displayLog]

\* show(badge)
showBadge(B, badge) ==
    [B EXCEPT !.overlay = badge, !.showing = TRUE, !.log = Append(@, badge)]

\* processQueue()
processQueue(B) ==
    IF B.showing \/ B.queue = <<>> THEN B
    ELSE showBadge([B EXCEPT !.queue = Tail(@)], Head(B.queue))

commitBadge(B, name) ==
    /\ badgeQueue' = B.queue
    /\ isShowing' = B.showing
    /\ overlayBadge' = B.overlay
    /\ displayLog' = B.log
    /\ badgeEvent' = name
    /\ UNCHANGED besideBadge

InitBadge ==
    /\ BadgeIdle
    /\ LevIdle /\ MatchIdle /\ AlignIdle /\ SessIdle /\ SeekIdle /\ BootIdle
    /\ ProgIdle /\ FlashIdle /\ PlayIdle

\* enqueue(badgeOrBadges) with one badge, an array of badges, or a string
\* that is their JSON; a string that is not JSON is dropped
Enqueue ==
    \E n \in 0..(MaxBadges - enqueuedCount), valid \in BOOLEAN :
       /\ valid \/ n > 0
       /\ IF valid
          THEN /\ enqueuedCount' = enqueuedCount + n
               /\ commitBadge(processQueue(
                      [BadgeState EXCEPT !.queue =
                           @ \o [k \in 1..n |-> enqueuedCount + k]]), "enqueue")
          ELSE /\ enqueuedCount' = enqueuedCount
               /\ commitBadge(BadgeState, "invalid")
       /\ UNCHANGED hideTimers

\* a click on the close button, which is in the overlay: hide()
ClickClose ==
    /\ overlayBadge # 0
    /\ Len(hideTimers) < MaxHideTimers
    /\ hideTimers' = Append(hideTimers, overlayBadge)
    /\ commitBadge(BadgeState, "close")
    /\ UNCHANGED enqueuedCount

\* the callback of the timer of hide(), 300 ms after the click
HideTimer ==
    /\ hideTimers # <<>>
    /\ hideTimers' = Tail(hideTimers)
    /\ commitBadge(processQueue([BadgeState EXCEPT !.overlay = 0, !.showing = FALSE]),
                   "hidden")
    /\ UNCHANGED enqueuedCount

NextBadge == Enqueue \/ ClickClose \/ HideTimer

SpecBadge == InitBadge /\ [][NextBadge]_vars

---------------------------------------------------------------------------
(* static/js/flashcard-core.js: FlashcardApp.  A card is a number; the     *)
(* server's answer to a grade request and the delays of the timers are the *)
(* environment's choice.                                                   *)

Flash == [queue |-> fcQueue, current |-> fcCurrent, backHidden |-> backHidden,
          emptyShown |-> emptyShown, gradesSent |-> gradesSent,
          completedThis |-> completedThis, awaited |-> awaited]

\* renderCard(card)
renderCard(F, card) ==
    IF card = 0
    THEN [F EXCEPT !.emptyShown = TRUE]
    ELSE [F EXCEPT !.backHidden = TRUE, !.gradesSent = 0, !.completedThis = 0,
                   !.awaited = @ \ {card}]

\* nextCard() past its lock guard
nextCard(F) ==
    IF F.queue = <<>>
    THEN renderCard([F EXCEPT !.current = 0], 0)
    ELSE renderCard([F EXCEPT !.current = Head(F.queue), !.queue = Tail(@)],
                    Head(F.queue))

commitFlash(F, name) ==
    /\ fcQueue' = F.queue
    /\ fcCurrent' = F.current
    /\ backHidden' = F.backHidden
    /\ emptyShown' = F.emptyShown
    /\ gradesSent' = F.gradesSent
    /\ completedThis' = F.completedThis
    /\ awaited' = F.awaited
    /\ fcEvent' = name
    /\ UNCHANGED besideFlash

\* init(): the queue is the page's cards and nextCard() shows the first
InitFlash ==
    /\ \E n \in 0..MaxCards :
          LET F == nextCard([queue |-> [k \in 1..n |-> k], current |-> 0,
                             backHidden |-> TRUE, emptyShown |-> FALSE,
                             gradesSent |-> 0, completedThis |-> 0,
                             awaited |-> {}])
          IN  /\ fcQueue = F.queue /\ fcCurrent = F.current
              /\ backHidden = F.backHidden /\ emptyShown = F.emptyShown
    /\ completed = 0 /\ locked = FALSE /\ gradeInFlight = 0
    /\ nextCardTimers = 0 /\ requeueTimers = <<>>
    /\ gradesSent = 0 /\ completedThis = 0 /\ gradesTotal = 0
    /\ awaited = {} /\ fcEvent = "init"
    /\ LevIdle /\ MatchIdle /\ AlignIdle /\ SessIdle /\ SeekIdle /\ BootIdle
    /\ ProgIdle /\ BadgeIdle /\ PlayIdle

\* flipCard()
FlipCard ==
    /\ ~locked
    /\ commitFlash([Flash EXCEPT !.backHidden = ~@], "flip")
    /\ UNCHANGED <<completed, locked, gradeInFlight, nextCardTimers,
                   requeueTimers, gradesTotal>>

\* a click on a grade button, or a key 1-4: gradeCard(rating) up to its fetch
GradeCard ==
    /\ ~backHidden
    /\ fcCurrent # 0 /\ ~locked
    /\ gradesTotal < MaxGrades
    /\ locked' = TRUE
    /\ gradeInFlight' = fcCurrent
    /\ gradesTotal' = gradesTotal + 1
    /\ commitFlash([Flash EXCEPT !.gradesSent = @ + 1], "grade")
    /\ UNCHANGED <<completed, nextCardTimers, requeueTimers>>

\* the grade request is answered with resp.ok and JSON
GradeSucceeds ==
    /\ gradeInFlight # 0
    /\ \E requeue \in BOOLEAN :
          /\ requeueTimers' = IF requeue THEN Append(requeueTimers, fcCurrent)
                              ELSE requeueTimers
          /\ commitFlash([Flash EXCEPT !.completedThis = @ + 1,
                                       !.awaited = IF requeue THEN @ \cup {fcCurrent}
                                                   ELSE @],
                         "graded")
    /\ completed' = completed + 1
    /\ locked' = FALSE
    /\ gradeInFlight' = 0
    /\ nextCardTimers' = nextCardTimers + 1
    /\ UNCHANGED gradesTotal

\* fetch rejects, resp.ok is false or resp.json() throws: the catch block
GradeFails ==
    /\ gradeInFlight # 0
    /\ locked' = FALSE
    /\ gradeInFlight' = 0
    /\ commitFlash(Flash, "gradeFailed")
    /\ UNCHANGED <<completed, nextCardTimers, requeueTimers, gradesTotal>>

\* setTimeout(() => this.nextCard(), 150)
NextCardTimer ==
    /\ nextCardTimers > 0
    /\ nextCardTimers' = nextCardTimers - 1
    /\ IF locked THEN commitFlash(Flash, "nextCardLocked")
       ELSE commitFlash(nextCard(Flash), "nextCard")
    /\ UNCHANGED <<completed, locked, gradeInFlight, requeueTimers, gradesTotal>>

\* the timer of a requeue: this.queue.push(snapshot); updateProgress()
RequeueTimer ==
    /\ \E k \in DOMAIN requeueTimers :
          /\ requeueTimers' = SubSeq(requeueTimers, 1, k - 1)
                                 \o SubSeq(requeueTimers, k + 1, Len(requeueTimers))
          /\ commitFlash([Flash EXCEPT !.queue = Append(@, requeueTimers[k])],
                         "requeued")
    /\ UNCHANGED <<completed, locked, gradeInFlight, nextCardTimers, gradesTotal>>

NextFlash ==
    \/ FlipCard \/ GradeCard \/ GradeSucceeds \/ GradeFails
    \/ NextCardTimer \/ RequeueTimer

SpecFlash == InitFlash /\ [][NextFlash]_vars

---------------------------------------------------------------------------
(* Reference definitions used to state the claims *)

\* the strings one insertion, deletion or substitution away from s, no
\* longer than maxLen
OneEdits(s, maxLen) ==
    {SubSeq(s, 1, k - 1) \o SubSeq(s, k + 1, Len(s)) : k \in 1..Len(s)}
    \cup {[s EXCEPT ![k] = c] : k \in 1..Len(s), c \in Letters}
    \cup (IF Len(s) < maxLen
          THEN {SubSeq(s, 1, k) \o <<c>> \o SubSeq(s, k + 1, Len(s)) :
                    k \in 0..Len(s), c \in Letters}
          ELSE {})

\* the least number of unit edits that turn some member of reached into
\* target, plus k
RECURSIVE editSteps(_, _, _, _)
editSteps(reached, target, k, maxLen) ==
    IF target \in reached THEN k
    ELSE editSteps(reached \cup UNION {OneEdits(s, maxLen) : s \in reached},
                   target, k + 1, maxLen)

EditDistance(a, b) == editSteps({a}, b, 0, Max2(Len(a), Len(b)))

\* the members of a set of numbers in increasing order
RECURSIVE ascending(_)
ascending(S) ==
    IF S = {} THEN <<>>
    ELSE LET least == CHOOSE x \in S : \A y \in S : x <= y
         IN  <<least>> \o ascending(S \ {least})

\* the largest order-preserving one-to-one pairing of user words with
\* reference words in which every pair is classified exact or near
MaxPairing(U, C) ==
    LET mt == matchTable(U, C)
        ok(A, B) == LET sa == ascending(A)
                        sb == ascending(B)
                    IN  \A t \in 1..Len(sa) : mt[sa[t]][sb[t]] # "wrong"
        sizes == {Cardinality(A) : A \in {X \in SUBSET (1..Len(U)) :
                     \E B \in SUBSET (1..Len(C)) :
                         Cardinality(B) = Cardinality(X) /\ ok(X, B)}}
    IN  CHOOSE k \in sizes : \A other \in sizes : other <= k

userSide(al) ==
    LET kept == SelectSeq(al, LAMBDA it : it.userWord # Null)
    IN  [k \in 1..Len(kept) |-> kept[k].userWord[1]]

refSide(al) ==
    LET kept == SelectSeq(al, LAMBDA it : it.correctWord # Null)
    IN  [k \in 1..Len(kept) |-> kept[k].correctWord[1]]

matchedCount(al) == countType(al, "exact") + countType(al, "near")

---------------------------------------------------------------------------
(* Claims *)

\* C1: for any user and reference word arrays lcsAlign terminates: every
\* iteration of its loop emits one item and keeps i, j in range with
\* (m - i) + (n - j) at least the number of items emitted, so the loop
\* ends within m + n iterations; and the sequence it returns equals the
\* big-step result, its items with a user word, in order, are exactly the
\* user array, and its items with a reference word, in order, are exactly
\* the reference array.
C1_AlignPreservesBothInputs ==
    /\ alignPc \in {"backtrack", "done"} =>
           /\ alignI \in 0..Len(userWords)
           /\ alignJ \in 0..Len(correctWords)
           /\ Len(alignment) <= (Len(userWords) - alignI)
                                 + (Len(correctWords) - alignJ)
           /\ userSide(alignment)
                  = SubSeq(userWords, alignI + 1, Len(userWords))
           /\ refSide(alignment)
                  = SubSeq(correctWords, alignJ + 1, Len(correctWords))
    /\ alignDone => /\ alignment = lcsAlign(userWords, correctWords)
                    /\ userSide(alignment) = userWords
                    /\ refSide(alignment) = correctWords

C1_Witness ==
    /\ alignDone
    /\ Len(userWords) = 3 /\ Len(correctWords) = 3
    /\ countType(alignment, "missing") > 0
    /\ countType(alignment, "extra") > 0
    /\ countType(alignment, "near") > 0

\* C2: every item of an alignment is well formed: missing has no user word
\* and a reference word, extra has a user word and no reference word, exact
\* and near have both and the pair is classified as the item's type by
\* wordMatchType; no item has another type.
C2_ItemShape ==
    alignDone =>
        \A k \in 1..Len(alignment) :
            LET it == alignment[k] IN
            /\ it.type \in {"exact", "near", "missing", "extra"}
            /\ it.type = "missing" => it.userWord = Null /\ it.correctWord # Null
            /\ it.type = "extra" => it.correctWord = Null /\ it.userWord # Null
            /\ it.type \in {"exact", "near"} =>
                   /\ it.userWord # Null /\ it.correctWord # Null
                   /\ wordMatchType(it.userWord[1], it.correctWord[1]) = it.type

C2_Witness ==
    /\ alignDone
    /\ countType(alignment, "exact") > 0
    /\ countType(alignment, "near") > 0
    /\ countType(alignment, "missing") > 0
    /\ countType(alignment, "extra") > 0

\* C3: the number of exact and near items of an alignment is the size of
\* the largest order-preserving one-to-one pairing of user words with
\* reference words whose pairs all match (exact or near).
C3_MatchedCountIsMaximal ==
    alignDone => matchedCount(alignment) = MaxPairing(userWords, correctWords)

\* a matchable cell where skipping the user word would do as well as
\* pairing it, in an alignment that uses a near match
C3_Witness ==
    /\ alignDone
    /\ countType(alignment, "near") > 0
    /\ \E i \in 1..Len(userWords), j \in 1..Len(correctWords) :
           /\ alignMt[i][j] # "wrong"
           /\ alignDp[i][j + 1] = alignDp[i][j] + 1
           /\ alignDp[i + 1][j] = alignDp[i][j] + 1

\* C4: wordMatchType is wrong when either normalized word is empty, exact
\* when the normalized words are equal, and otherwise near exactly when the
\* normalized reference word has 4 or 5 characters and the edit distance is
\* at most 1, or has 6 or more and the distance is at most 2.
C4_MatchTypeThresholds ==
    matchResult # "none" =>
        LET u == normalizeWord(matchUser)
            c == normalizeWord(matchCorrect)
            d == levenshtein(u, c)
        IN  matchResult =
                IF u = <<>> \/ c = <<>> THEN "wrong"
                ELSE IF u = c THEN "exact"
                ELSE IF \/ (Len(c) \in 4..5 /\ d <= 1)
                        \/ (Len(c) >= 6 /\ d <= 2)
                     THEN "near"
                     ELSE "wrong"

C4_Witness ==
    /\ matchResult = "near"
    /\ Len(normalizeWord(matchCorrect)) = 6
    /\ Len(normalizeWord(matchUser)) = 4
    /\ levenshtein(normalizeWord(matchUser), normalizeWord(matchCorrect)) = 2

\* C5: levenshtein(a, a) = 0, levenshtein("", s) = len(s), levenshtein is
\* symmetric, and it equals the unit-cost edit distance (the least number
\* of insertions, deletions and substitutions turning a into b).
C5_LevenshteinIsEditDistance ==
    levResult # -1 =>
        /\ levA = levB => levResult = 0
        /\ levA = <<>> => levResult = Len(levB)
        /\ levResult = levenshtein(levB, levA)
        /\ levResult = EditDistance(levA, levB)

C5_Witness ==
    /\ levResult = 2
    /\ Len(levA) = 3 /\ Len(levB) = 3
    /\ levA # levB

\* the reveal button exists and is not hidden
RevealAvailable == btnRevealPresent /\ ~btnRevealHidden

\* the step is a call of checkAnswer with a non-blank answer on an
\* unchecked segment
GradedCheck ==
    /\ lastCall' = "checkAnswer"
    /\ ~isChecked
    /\ inSegment
    /\ trim(inputValue) # <<>>

\* the acceptance rule in the words of the claim
AcceptableAnswer(answer, correctText) ==
    \/ normalizeForCompare(answer) = normalizeForCompare(correctText)
    \/ LET al == lcsAlign(wordsOf(answer), wordsOf(correctText))
       IN  /\ countType(al, "missing") = 0
           /\ countType(al, "extra") = 0
           /\ countType(al, "near") >= 1

\* C6: checkAnswer on a non-empty answer for an unchecked segment sets
\* is_checked, adds exactly 1 to correct_count and leaves attempts alone if
\* and only if the normalized answer equals the normalized reference or the
\* alignment has no missing item, no extra item and at least one near item;
\* otherwise it adds exactly 1 to attempts and leaves correct_count and
\* is_checked alone.
C6_CheckAnswerDecision ==
    [][GradedCheck =>
          IF AcceptableAnswer(inputValue, segments[currentIndex + 1])
          THEN /\ isChecked'
               /\ correctCount' = correctCount + 1
               /\ attempts' = attempts
          ELSE /\ attempts' = attempts + 1
               /\ correctCount' = correctCount
               /\ isChecked' = isChecked]_vars

\* an answer accepted for its typos only, after one that was rejected
C6_Witness ==
    /\ lastCall = "checkAnswer"
    /\ feedbackContent = "nearCorrect"
    /\ isChecked
    /\ attempts = 1
    /\ correctCount = 1

\* C7, as claimed: three incorrect checks on a segment make reveal
\* available; revealAnswer leaves correct_count unchanged and sets
\* is_checked; the nextSegment that follows resets attempts to 0 and
\* is_checked to false for the new segment.
C7_RevealAfterThreeFailures ==
    /\ [](inSegment /\ ~isChecked /\ attempts >= MAX_ATTEMPTS => RevealAvailable)
    /\ [][lastCall' = "revealAnswer" =>
             correctCount' = correctCount /\ isChecked']_vars
    /\ [][lastCall = "revealAnswer" /\ lastCall' = "nextSegment"
             /\ currentIndex' < Len(segments) =>
             attempts' = 0 /\ ~isChecked']_vars

\* C8: reveal is unavailable when a segment is first presented, becomes
\* available only by the incorrect check that brings attempts to
\* MAX_ATTEMPTS, is never available (and revealAnswer never runs) while
\* attempts < MAX_ATTEMPTS, and is withdrawn once the segment is accepted,
\* revealed or advanced.
C8_RevealOnlyAfterMaxAttempts ==
    /\ [](RevealAvailable =>
              inSegment /\ ~isChecked /\ attempts >= MAX_ATTEMPTS)
    /\ [][lastCall' = "revealAnswer" =>
             attempts >= MAX_ATTEMPTS /\ ~isChecked]_vars
    /\ [][~RevealAvailable /\ RevealAvailable' =>
             /\ lastCall' = "checkAnswer"
             /\ attempts' = MAX_ATTEMPTS
             /\ attempts = MAX_ATTEMPTS - 1]_vars
    /\ [][lastCall' \in {"revealAnswer", "nextSegment"} \/ isChecked' =>
             ~RevealAvailable']_vars

\* reveal offered on the second segment shown, the first having been left
C8_Witness ==
    /\ RevealAvailable
    /\ attempts = MAX_ATTEMPTS
    /\ visited = 2

\* C9: checkAnswer with an empty or blank answer changes none of attempts,
\* correct_count, is_checked, current_index, nor the availability of
\* reveal, and on an unchecked segment shows the "no answer" message.
C9_EmptyAnswerNotCounted ==
    [][lastCall' = "checkAnswer" /\ trim(inputValue) = <<>> =>
          /\ UNCHANGED <<attempts, correctCount, isChecked, currentIndex>>
          /\ RevealAvailable' = RevealAvailable
          /\ ~isChecked => ~feedbackHidden' /\ feedbackContent' = "noAnswer"]_vars

\* a blank submission made after two failed checks
C9_Witness ==
    /\ lastCall = "checkAnswer"
    /\ feedbackContent = "noAnswer"
    /\ inputValue = <<" ", "\t">>
    /\ attempts = MAX_ATTEMPTS - 1

\* C10: on a checked segment checkAnswer changes nothing, correct_count
\* grows by at most 1 per segment shown, and correct_count <= segments
\* shown <= segments.length.
C10_AtMostOneCountPerSegment ==
    /\ [](/\ correctCount <= countAtRender + 1
          /\ correctCount <= visited
          /\ visited <= Len(segments))
    /\ [][lastCall' = "checkAnswer" /\ isChecked =>
             UNCHANGED <<modeVars, domVars, progressArg, playRequest, visited>>]_vars

\* checkAnswer called on the second segment after it was revealed, the
\* first having been answered correctly
C10_Witness ==
    /\ lastCall = "checkAnswer"
    /\ isChecked
    /\ feedbackContent = "answer"
    /\ inputValue = joinWords(<<wAb, wAbaa>>, <<" ">>)
    /\ correctCount = 1
    /\ visited = 2

\* the session is in the Summary state
inSummary == currentIndex = Len(segments)

\* C11, as claimed: current_index changes only by nextSegment, by +1 each
\* time, and stays within 0..segments.length; once it equals
\* segments.length (Summary), checkAnswer, revealAnswer and nextSegment
\* change no session state and raise no error.
C11_IndexBoundedAndSummaryReadOnly ==
    /\ [](0 <= currentIndex /\ currentIndex <= Len(segments))
    /\ [][currentIndex' # currentIndex =>
             lastCall' = "nextSegment" /\ currentIndex' = currentIndex + 1]_vars
    /\ [][inSummary /\ lastCall' \in {"checkAnswer", "revealAnswer", "nextSegment"} =>
             UNCHANGED modeVars /\ ~threw']_vars

---------------------------------------------------------------------------
(* AudioSeeker: vocabulary of the claims *)

\* exactly one seekAndPlay call has been made
singleRequest == Len(requests) = 1

\* the call made last
currentRequest == requests[Len(requests)]

\* the step runs onEnd of request r
endedFires(r) == requests'[r].ended = requests[r].ended + 1

\* the step runs onPlay of request r
startedFires(r) == requests'[r].started = requests[r].started + 1

\* C12: for a single request, onPlay runs at most once and onEnd at most
\* once; the end check stays armed from onPlay until onEnd; onEnd runs at
\* the run of the end check that finds the audio playing at or past
\* endTime, never at another step, and that run pauses the audio.
C12_SingleRequestStartsAndEndsOnce ==
    /\ [](singleRequest =>
            /\ requests[1].started <= 1
            /\ requests[1].ended <= 1
            /\ requests[1].ended <= requests[1].started
            /\ (requests[1].started = 1 /\ requests[1].ended = 0
                    => requests[1].endCheck))
    /\ [][singleRequest /\ singleRequest' /\ seekEvent' = <<"endCheck", 1>> =>
             IF ~audioPaused /\ audioTime >= requests[1].endTime
             THEN endedFires(1) /\ audioPaused' /\ ~requests'[1].endCheck
             ELSE UNCHANGED <<requests, audioPaused, audioTime>>]_vars
    /\ [][singleRequest /\ singleRequest' /\ requests'[1].ended # requests[1].ended =>
             /\ seekEvent' = <<"endCheck", 1>>
             /\ audioTime >= requests[1].endTime]_vars

\* the only request has run onPlay and then onEnd, the audio having played
\* from its target to its end
C12_Witness ==
    /\ singleRequest
    /\ seekEvent = <<"endCheck", 1>>
    /\ requests[1].started = 1
    /\ requests[1].ended = 1
    /\ requests[1].targetTime = 2
    /\ audioTime = requests[1].endTime
    /\ audioPaused

\* C13, as claimed: when a request is issued before the one before it has
\* run onPlay, the earlier request never runs onPlay nor onEnd.
C13_SupersededRequestStaysSilent ==
    \A k \in DOMAIN requests :
        k > 1 /\ requests[k].beforeStarted =>
            requests[k - 1].started = 0 /\ requests[k - 1].ended = 0

\* C14, as claimed: once a newer request is issued, no timer, listener or
\* promise of an older request is live, so onEnd of an older request never
\* runs and at most one end check is armed.
C14_OnlyNewestRequestLive ==
    /\ [](\A k \in DOMAIN requests : k < Len(requests) => ~live(requests[k]))
    /\ [][\A k \in DOMAIN requests : k < Len(requests) => ~endedFires(k)]_vars
    /\ [](Cardinality({k \in DOMAIN requests : requests[k].endCheck}) <= 1)

\* C15: onEnd of a request runs only after its onPlay has run; the end
\* check is armed only by the settled play().
C15_StartedBeforeEnded ==
    /\ [](\A r \in DOMAIN requests :
              /\ requests[r].ended > 0 => requests[r].started > 0
              /\ requests[r].endCheck => requests[r].started > 0)
    /\ [][\A r \in DOMAIN requests : endedFires(r) => requests[r].started > 0]_vars

\* a request has run onPlay and then onEnd while an older one ran neither
C15_Witness ==
    /\ Len(requests) = 2
    /\ requests[2].started = 1
    /\ requests[2].ended = 1
    /\ requests[1].started = 0
    /\ requests[1].ended = 0

\* C16, as claimed: while the current request is playing, an end check
\* pauses the audio only at or past the current request's endTime.
C16_NoPauseBeforeOwnEnd ==
    [][(\E r \in DOMAIN requests : endedFires(r))
          /\ currentRequest.started > 0 /\ currentRequest.ended = 0 =>
          audioTime >= currentRequest.endTime]_vars

\* C17: every request calls startPlayback at most once; it has called it
\* exactly once when its seek step is over, by 'seeked' or by the poll,
\* with or without playThenSeek; whichever of the listener and the poll
\* confirms, the listener is removed and the poll ends at its next run.
C17_StartPlaybackOncePerSeek ==
    /\ [](\A r \in DOMAIN requests :
              /\ requests[r].startCalls <= 1
              /\ (requests[r].seekCompleted /\ requests[r].pts = "none"
                      => requests[r].startCalls = 1)
              /\ (~requests[r].seekCompleted \/ requests[r].pts # "none"
                      => requests[r].startCalls = 0)
              /\ (requests[r].seekCompleted => ~requests[r].listener)
              /\ (requests[r].listener => requests[r].poll))
    /\ [][\A r \in DOMAIN requests :
             seekEvent' = <<"poll", r>> /\ requests[r].seekCompleted =>
                 ~requests'[r].poll /\ requests'[r].startCalls = requests[r].startCalls]_vars

\* two requests had their seek confirmed, the later one by playThenSeek
\* after a 'seeked' that both listeners heard
C17_Witness ==
    /\ Len(requests) = 2
    /\ seekEvent = <<"ptsTimer2", 2>>
    /\ requests[1].startCalls = 1
    /\ requests[2].startCalls = 1
    /\ requests[1].targetTime # requests[2].targetTime

\* C18: a poll never counts past the cap: its run number SeekPollCap calls
\* startPlayback whatever the position, and no earlier run does so away
\* from the target; playThenSeek calls startPlayback when its second timer
\* runs, wherever the retried seek landed, and at once when its play() is
\* refused.
C18_SeekNeverStalls ==
    /\ [](\A r \in DOMAIN requests : requests[r].pollAttempts < SeekPollCap)
    /\ [][\A r \in DOMAIN requests :
             seekEvent' = <<"poll", r>> /\ ~requests[r].seekCompleted =>
                 IF withinTolerance(audioTime, requests[r].targetTime)
                       \/ requests[r].pollAttempts = SeekPollCap - 1
                 THEN /\ requests'[r].startCalls = requests[r].startCalls + 1
                      /\ ~requests'[r].poll
                 ELSE /\ requests'[r].pollAttempts = requests[r].pollAttempts + 1
                      /\ requests'[r].startCalls = requests[r].startCalls]_vars
    /\ [][\A r \in DOMAIN requests :
             \/ seekEvent' = <<"ptsTimer2", r>>
             \/ seekEvent' = <<"ptsSettled", r>> /\ requests[r].pts = "awaitRejecting"
             => requests'[r].startCalls = requests[r].startCalls + 1]_vars

\* startPlayback was called by the run of the poll that reached the cap,
\* with the position away from the target and no 'seeked' heard
C18_Witness ==
    /\ singleRequest
    /\ seekEvent = <<"poll", 1>>
    /\ seekedDue
    /\ requests[1].startCalls = 1
    /\ ~withinTolerance(audioTime, requests[1].targetTime)

\* C19, as claimed: after stop, until the next request, no timer, listener
\* or promise of a request is live, no onPlay or onEnd runs and the audio
\* stays paused.
C19_StopCancelsEverything ==
    /\ [](stopped => \A r \in DOMAIN requests : ~live(requests[r]))
    /\ [][stopped /\ stopped' =>
             /\ audioPaused'
             /\ \A r \in DOMAIN requests : ~startedFires(r) /\ ~endedFires(r)]_vars

consumed == Head(alignment')

\* the step is an iteration of the backtrack loop that does not consume the
\* cell as a match
offMatchStep ==
    /\ alignPc = "backtrack" /\ alignPc' = "backtrack"
    /\ Len(alignment') = Len(alignment) + 1
    /\ consumed.type \notin {"exact", "near"}

\* C25: in the backtrack, at a cell not consumed as a match, a reference
\* word is consumed as missing whenever j > 0 and (i = 0 or dp[i][j-1] >=
\* dp[i-1][j]); otherwise a user word is consumed as extra.  So one user
\* word and one reference word that do not match give extra(user word)
\* followed by missing(reference word).
C25_MissingPreferredOnTies ==
    /\ [][offMatchStep =>
             IF alignJ > 0 /\ (alignI = 0
                               \/ alignDp[alignI + 1][alignJ] >= alignDp[alignI][alignJ + 1])
             THEN /\ consumed = [type |-> "missing", userWord |-> Null,
                                 correctWord |-> Some(correctWords[alignJ])]
                  /\ alignJ' = alignJ - 1 /\ alignI' = alignI
             ELSE /\ consumed = [type |-> "extra", userWord |-> Some(userWords[alignI]),
                                 correctWord |-> Null]
                  /\ alignI' = alignI - 1 /\ alignJ' = alignJ]_vars
    /\ [](alignDone /\ Len(userWords) = 1 /\ Len(correctWords) = 1
          /\ wordMatchType(userWords[1], correctWords[1]) = "wrong"
          => alignment = << [type |-> "extra", userWord |-> Some(userWords[1]),
                             correctWord |-> Null],
                            [type |-> "missing", userWord |-> Null,
                             correctWord |-> Some(correctWords[1])] >>)

\* one user word and one reference word that do not match, aligned
C25_Witness ==
    /\ alignDone
    /\ Len(userWords) = 1 /\ Len(correctWords) = 1
    /\ alignMt[1][1] = "wrong"
    /\ Len(alignment) = 2
    /\ alignment[1].type = "extra" /\ alignment[2].type = "missing"

\* the aligner of the claim: lcsAlign but for the tie-break, which prefers
\* extra over missing
RECURSIVE backtrackExtraOnTies(_, _, _, _, _, _, _)
backtrackExtraOnTies(U, C, mt, dp, i, j, result) ==
    IF ~(i > 0 \/ j > 0) THEN result
    ELSE LET after == backtrackStepExtraOnTies(U, C, mt, dp, i, j, result)
         IN  backtrackExtraOnTies(U, C, mt, dp, after.i, after.j, after.result)

lcsAlignExtraOnTies(U, C) ==
    LET mt == matchTable(U, C)
        dp == lcsTable(mt, Len(U), Len(C))
    IN  backtrackExtraOnTies(U, C, mt, dp, Len(U), Len(C), <<>>)

\* C26: for every U and C the aligner that prefers extra on ties yields the
\* same number of matched (exact and near) items, of missing items and of
\* extra items as lcsAlign, hence the same near-correct decision and the
\* same partial score (exact + near) / |C|.
C26_TieBreakKeepsTotals ==
    alignDone =>
        LET other == lcsAlignExtraOnTies(userWords, correctWords) IN
        /\ matchedCount(alignment) = matchedCount(other)
        /\ countType(alignment, "missing") = countType(other, "missing")
        /\ countType(alignment, "extra") = countType(other, "extra")
        /\ isNearCorrect(alignment) = isNearCorrect(other)

\* an input on which the two tie-breaks give different alignments, with a
\* matched, a missing and an extra item
C26_Witness ==
    /\ alignDone
    /\ alignment # lcsAlignExtraOnTies(userWords, correctWords)
    /\ matchedCount(alignment) > 0
    /\ countType(alignment, "missing") > 0
    /\ countType(alignment, "extra") > 0

\* the alignment checkAnswer computes for the answer in the textarea
checkedAlignment ==
    lcsAlign(wordsOf(trim(inputValue)), wordsOf(segments[currentIndex + 1]))

\* C27: whenever checkAnswer reports 'incorrect' the alignment has a missing
\* or an extra item, so an answer whose alignment has neither is accepted;
\* and an alignment of a non-empty answer made of exact items only means
\* that the normalized answer equals the normalized reference.
C27_NoRejectionWithoutMissingOrExtra ==
    /\ lastCall = "checkAnswer" /\ ~threw /\ feedbackContent = "incorrect"
       => \/ countType(checkedAlignment, "missing") > 0
          \/ countType(checkedAlignment, "extra") > 0
    /\ inSegment /\ trim(inputValue) # <<>>
       /\ countType(checkedAlignment, "exact") = Len(checkedAlignment)
       => normalizeForCompare(inputValue) = normalizeForCompare(segments[currentIndex + 1])

\* an answer differing from the reference in case, punctuation and blanks
\* whose alignment is all exact, accepted
C27_Witness ==
    /\ lastCall = "checkAnswer"
    /\ feedbackContent = "correct"
    /\ inSegment
    /\ trim(inputValue) # segments[currentIndex + 1]
    /\ countType(checkedAlignment, "exact") = Len(checkedAlignment)

\* start_time and end_time of a well-formed segment
wellFormedTimes(start_time, end_time) == 0 <= start_time /\ start_time < end_time

\* C21, as claimed: a segment with end_time <= start_time or a negative
\* start_time is dropped at load time and the other segments remain, so
\* every segment of a running session has 0 <= start_time < end_time and
\* no malformed segment is handed to playback.
C21_MalformedSegmentsRejected ==
    /\ bootPc # "loading" =>
          loadedSegments =
              SelectSeq(normalizeSegments(rawSegments),
                        LAMBDA seg : wellFormedTimes(seg.start_time, seg.end_time))
    /\ bootPc = "running" =>
          \A k \in DOMAIN loadedSegments :
              wellFormedTimes(loadedSegments[k].start_time, loadedSegments[k].end_time)
    /\ handed # <<>> => wellFormedTimes(handed[1], handed[2])

\* the quiet period after the last render of the burst is over and no timer
\* of onProgress is left
burstOver == sinceRender >= DEBOUNCE_MS /\ progTimers = <<>>

\* the burst was reported once, with the arguments of its last render
reportedOnce ==
    /\ burstSent = 1
    /\ progSent # <<>>
    /\ progSent[Len(progSent)] = burst[Len(burst)]

\* a request is sent only once the quiet period is over, and the answer or
\* the failure of a request changes nothing of the session
sentAfterQuietAndFailureHarmless ==
    /\ [][progSent' # progSent => sinceRender >= DEBOUNCE_MS]_vars
    /\ [][progEvent' \in {"answered", "failed"} /\ progInFlight' # progInFlight =>
             UNCHANGED <<progIndex, progTotal, progTimers, progSent, burst>>]_vars

\* C22, as claimed: any burst of segment renders each within 300 ms of the
\* one before results in exactly one notification to the progress sink,
\* sent after the quiet period with the (current_index, total_segments) of
\* the last render; a failure of the sink changes no session state.
C22_BurstReportedOnce ==
    /\ [](burstSent <= 1)
    /\ [](burstOver => reportedOnce)
    /\ sentAfterQuietAndFailureHarmless

\* C22, amended: the same on a page that has a progress endpoint, an
\* exercise id and an authenticated user; on any other page nothing is sent.
C22_BurstReportedOnceIfEnabled ==
    /\ [](burstSent <= 1)
    /\ [](progEnabled /\ burstOver => reportedOnce)
    /\ [](~progEnabled => progSent = <<>> /\ progTimers = <<>>)
    /\ sentAfterQuietAndFailureHarmless

\* a burst of two renders reported once, with the index of the second, and
\* the request failed
C22_Witness ==
    /\ progEnabled
    /\ Len(burst) = 2
    /\ burstOver
    /\ progSent = << burst[2] >>
    /\ progEvent = "failed"

\* C30, as claimed: BadgeManager shows at most one badge at a time and every
\* enqueued badge exactly once, in the order enqueued: a badge enqueued
\* while another is showing is not displayed until that one has been
\* hidden, and no badge is skipped or cut short, whatever the order of
\* enqueue calls, close clicks and hide timers.  The badges displayed are
\* 1, 2, ... in order; a badge enters the overlay only when the overlay is
\* hidden or in the step that hides the badge before it; and the overlay's
\* badge leaves it only by the timer of a close click made on that badge.
C30_BadgesShownOnceInOrder ==
    /\ [](\A k \in DOMAIN displayLog : displayLog[k] = k)
    /\ [](overlayBadge # 0 => overlayBadge = displayLog[Len(displayLog)])
    /\ [][overlayBadge # 0 /\ overlayBadge' # overlayBadge =>
             hideTimers # <<>> /\ Head(hideTimers) = overlayBadge
             /\ badgeEvent' = "hidden"]_vars
    /\ [](overlayBadge = 0 /\ hideTimers = <<>> => badgeQueue = <<>>)

\* C28, as claimed: each presentation of a card results in at most one
\* grade request and increments completed at most once: while a grade
\* request is in flight, and between a successful grade and the display of
\* the next card, a further gradeCard, flipCard or nextCard on the same card
\* has no effect; on a failed grade completed, current and the queue are
\* unchanged and the lock is released.
C28_OneGradePerPresentation ==
    /\ [](gradesSent <= 1 /\ completedThis <= 1)
    /\ [][(gradeInFlight # 0 \/ completedThis > 0)
          /\ fcEvent' \in {"grade", "flip", "nextCardLocked"} =>
             UNCHANGED <<fcQueue, fcCurrent, completed, locked, backHidden,
                         gradeInFlight, gradesSent>>]_vars
    /\ [][fcEvent' = "gradeFailed" /\ gradeInFlight # 0 =>
             ~locked' /\ UNCHANGED <<fcQueue, fcCurrent, completed>>]_vars

\* C29, as claimed: a card the server asks to requeue is presented again as
\* the current card, also when it was the last card and its requeue timer
\* fires after nextCard has found the queue empty and shown 'complete'.
\* Stated for the states in which nothing is current and in flight: a card
\* still awaited is then either on a pending requeue timer or in the queue
\* with a nextCard timer pending; in any other such state no step of the
\* page displays a card again.
C29_RequeuedCardPresentedAgain ==
    fcCurrent = 0 /\ awaited # {} =>
        \/ requeueTimers # <<>>
        \/ nextCardTimers > 0

\* the step runs the onEnd callback of a request of DictationMode
dictationEnds == \E r \in DOMAIN requests :
                    /\ requests'[r].ended > requests[r].ended
                    /\ ownerOf(r).mode = "dictation"

\* the step is a replay timer that calls seekAndPlay
replayPlays == seekEvent' = <<"replay", Len(requests) + 1>> /\ Len(requests') > Len(requests)

\* C23, as claimed: with autoReplay = Yes each end of the current segment's
\* playback sets a replay, and what is replayed is the segment that ended;
\* with autoReplay = No the ended callback schedules nothing; and a replay
\* set for a segment does not fire after the session has advanced past that
\* segment or has been stopped.
C23_ReplayOnlyOfEndedSegment ==
    /\ [][dictationEnds =>
             IF autoReplay THEN Len(replayTimers') = Len(replayTimers) + 1
             ELSE replayTimers' = replayTimers]_vars
    /\ [][replayPlays =>
             /\ owners'[Len(owners')].idx = firedFor'
             /\ playIndex = firedFor'
             /\ ~stopped]_vars

\* the index of the last segment
lastSegment == Len(SegmentTimes) - 1

\* handleEnd has run for the last segment
chainDone ==
    /\ transLog # <<>>
    /\ transLog[Len(transLog)][1] = "end"
    /\ transLog[Len(transLog)][2] = lastSegment

\* nothing of the seeker, of the media element or of TranscriptMode is pending
chainQuiet ==
    /\ requests # <<>>
    /\ \A r \in DOMAIN requests : ~live(requests[r])
    /\ gapTimers = <<>>
    /\ mediaEvents = <<>>

\* the step runs handleEnd
handleEndRuns ==
    /\ Len(transLog') > Len(transLog)
    /\ transLog'[Len(transLog')][1] = "end"

\* the step runs the timer set by handleEnd
gapTimerRuns == seekEvent'[1] = "gap" /\ gapTimers' # gapTimers

\* C24: in continuous playback started at segment i and left alone, the
\* segments i, i+1, ..., last start and end in that order, each ends at its
\* end_time with the audio paused, the audio stays paused while the 1 s timer
\* is pending and the next segment is requested only by that timer; the timer
\* requests the next segment even when the 'pause' event has set isPlaying to
\* false; after the last segment no timer is set and isPlaying is false; and
\* playback halts before the last segment only where the audio never started.
C24_ContinuousChain ==
    /\ [](\A k \in DOMAIN transLog :
            /\ transLog[k][1] = (IF k % 2 = 1 THEN "play" ELSE "end")
            /\ transLog[k][2] = owners[1].idx + ((k - 1) \div 2)
            /\ transLog[k][1] = "end" =>
                  transLog[k][3] = SegmentTimes[transLog[k][2] + 1].end_time)
    /\ [](gapTimers # <<>> => audioPaused)
    /\ [](chainDone => ~transIsPlaying /\ gapTimers = <<>> /\ audioPaused)
    /\ [](chainQuiet /\ ~chainDone => requests[Len(requests)].started = 0)
    /\ [][handleEndRuns =>
             LET idx == transLog'[Len(transLog')][2]
             IN  /\ audioPaused'
                 /\ IF idx < lastSegment THEN gapTimers' = <<idx + 1>>
                    ELSE gapTimers' = <<>> /\ ~transIsPlaying']_vars
    /\ [][gapTimerRuns =>
             /\ Len(owners') = Len(owners) + 1
             /\ owners'[Len(owners')] =
                    [mode |-> "transcript", idx |-> Head(gapTimers)]]_vars
    /\ [][Len(owners') > Len(owners) /\ owners # <<>> => gapTimerRuns]_vars

\* both segments were played from segment 0, the 'pause' event of the last
\* end was handled, and playback has stopped
C24_Witness ==
    /\ chainDone
    /\ Len(transLog) = 2 * Len(SegmentTimes)
    /\ mediaEvents = <<>>
    /\ ~transIsPlaying

===========================================================================
